---- MODULE Spec2Model ----
(***************************************************************************)
(* A model of json-api-rs: member-name parsing (value/fields/key.rs),      *)
(* identifier identity (doc/ident.rs), the deflate walk (resource.rs,      *)
(* view/executor.rs) and the inflate cursor (doc/de.rs, doc/convert.rs).   *)
(***************************************************************************)
EXTENDS Integers, Sequences, FiniteSets, TLC

VARIABLES
    kSource,    \* Key::from_str: the source string, a sequence of characters
    kPos,       \* index of the next character `chars.next()` yields
    kDest,      \* the `dest` buffer
    kRes,       \* "idle" | "run" | "ok" | "blank" | "reserved" | "start" | "end"
    iA, iB,     \* two Identifiers
    iO,         \* an Object
    iOut,       \* results of comparing / hashing them
    gDoc,       \* from_doc: the Document being inflated
    gStack,     \* the cursors in use, innermost last (MapDocGraph / SeqDeserializer)
    gStatus,    \* "idle" | "run" | "ok" | "err"
    gValue,     \* the value the target schema built, once gStatus = "ok"
    gErr,       \* the error, once gStatus = "err"
    gFin,       \* the last completion of visit_object (history)
    gSkew,      \* how many pulls so far were out of turn (history)
    dWorld,     \* deflate: the application's resources
    dQuery,     \* the Option Query
    dStack,     \* the to_object calls in progress, innermost last
    dIncl,      \* the Set<Object> every Executor of the walk writes to
    dTodo,      \* the primary resources still to render
    dData,      \* the primary Objects rendered so far
    dDoc,       \* the Option Document returned
    dStatus,    \* "idle" | "run" | "done" | "err"
    dLog,       \* the to_object calls and include calls so far (history)
    vIn,        \* the Value or JsonValue given to a conversion
    vOut,       \* what the conversion returned
    mDoc,       \* the Document asked whether it is ok or an error
    mOut        \* what is_ok and is_err answered

keyVars   == <<kSource, kPos, kDest, kRes>>
identVars == <<iA, iB, iO, iOut>>
inflVars  == <<gDoc, gStack, gStatus, gValue, gErr, gFin, gSkew>>
deflVars  == <<dWorld, dQuery, dStack, dIncl, dTodo, dData, dDoc, dStatus,
               dLog>>
valueVars == <<vIn, vOut>>
docVars   == <<mDoc, mOut>>
vars      == <<keyVars, identVars, inflVars, deflVars, valueVars, docVars>>

\* What the actions of one part leave alone.
notKey   == <<identVars, inflVars, deflVars, valueVars, docVars>>
notIdent == <<keyVars, inflVars, deflVars, valueVars, docVars>>
notInfl  == <<keyVars, identVars, deflVars, valueVars, docVars>>
notDefl  == <<keyVars, identVars, inflVars, valueVars, docVars>>
notValue == <<keyVars, identVars, inflVars, deflVars, docVars>>
notDoc   == <<keyVars, identVars, inflVars, deflVars, valueVars>>

(***************************************************************************)
(* Generic helpers.                                                        *)
(***************************************************************************)
None == "None"

\* Option<T>: the empty sequence is None, a one-element sequence is Some(x).
NoneV == <<>>
Some(x) == <<x>>
IsSome(o) == o # <<>>
Unwrap(o) == o[1]

RECURSIVE SeqsUpTo(_, _)
SeqsUpTo(S, n) ==
    IF n = 0 THEN {<<>>}
    ELSE LET shorter == SeqsUpTo(S, n - 1)
         IN  shorter \cup {Append(s, c) : s \in {t \in shorter : Len(t) = n - 1}, c \in S}

(***************************************************************************)
(* Characters.  A character is a one-character string; Ord gives its code  *)
(* point, Chr the character of a code point.                               *)
(***************************************************************************)
LowerChars == <<"a","b","c","d","e","f","g","h","i","j","k","l","m",
                "n","o","p","q","r","s","t","u","v","w","x","y","z">>
UpperChars == <<"A","B","C","D","E","F","G","H","I","J","K","L","M",
                "N","O","P","Q","R","S","T","U","V","W","X","Y","Z">>

Ord(c) ==
    IF \E i \in 1..26 : LowerChars[i] = c
    THEN 96 + (CHOOSE i \in 1..26 : LowerChars[i] = c)
    ELSE IF \E i \in 1..26 : UpperChars[i] = c
    THEN 64 + (CHOOSE i \in 1..26 : UpperChars[i] = c)
    ELSE CASE c = " " -> 32
           [] c = "!" -> 33
           [] c = "-" -> 45
           [] c = "." -> 46
           [] c = "0" -> 48
           [] c = "_" -> 95

Chr(n) ==
    IF n \in 97..122 THEN LowerChars[n - 96]
    ELSE IF n \in 65..90 THEN UpperChars[n - 64]
    ELSE CASE n = 32 -> " "
           [] n = 33 -> "!"
           [] n = 45 -> "-"
           [] n = 46 -> "."
           [] n = 48 -> "0"
           [] n = 95 -> "_"

(***************************************************************************)
(* Key::from_str (value/fields/key.rs).                                    *)
(***************************************************************************)
\* The first match arm: the reserved punctuation and control characters.
IsReserved(c) ==
    LET n == Ord(c)
    IN  \/ n = 46 \/ n = 47 \/ n = 64 \/ n = 96
        \/ n \in 0..31
        \/ n \in 33..41
        \/ n \in 42..44
        \/ n \in 58..63
        \/ n \in 91..94
        \/ n \in 123..127

\* '_' | '-' | ' '
IsSep(c) == c \in {"_", "-", " "}

\* 'A'..='Z'
IsUpper(c) == Ord(c) \in 65..90

as_lowercase(value) == Chr((Ord(value) + 32) % 256)

ends_with_dash(dest) == Len(dest) > 0 /\ dest[Len(dest)] = "-"

\* The separator arm with a non-empty dest: what `chars.peek()` decides.
SepArmNoEndCheck(peek, dest) ==
    IF peek # None /\ (IsSep(peek) \/ IsUpper(peek))
    THEN [res |-> "run", dest |-> dest]
    ELSE IF peek # None
    THEN [res |-> "run", dest |-> Append(dest, "-")]
    ELSE [res |-> "run", dest |-> dest]

SepArm(peek, dest) ==
    IF peek # None /\ (IsSep(peek) \/ IsUpper(peek))
    THEN [res |-> "run", dest |-> dest]
    ELSE IF peek # None
    THEN [res |-> "run", dest |-> Append(dest, "-")]
    ELSE [res |-> "end", dest |-> dest]

\* The upper-case arms.
UpperArmNoDash(value, dest) == Append(dest, as_lowercase(value))

UpperArm(value, dest) ==
    IF ends_with_dash(dest)
    THEN Append(dest, as_lowercase(value))
    ELSE Append(Append(dest, "-"), as_lowercase(value))

\* One iteration of `while let Some(value) = chars.next()`, for the
\* character at index i.
KeyLoopBody(source, i, dest) ==
    LET value == source[i]
        peek  == IF i < Len(source) THEN source[i + 1] ELSE None
    IN  IF IsReserved(value) THEN [res |-> "reserved", dest |-> dest]
        ELSE IF IsSep(value) /\ dest = <<>> THEN [res |-> "start", dest |-> dest]
        ELSE IF IsSep(value) THEN SepArm(peek, dest)
        ELSE IF IsUpper(value) THEN [res |-> "run", dest |-> UpperArm(value, dest)]
        ELSE [res |-> "run", dest |-> Append(dest, value)]

RECURSIVE KeyLoop(_, _, _)
KeyLoop(source, i, dest) ==
    IF i > Len(source) THEN [ok |-> TRUE, key |-> dest, err |-> None]
    ELSE LET r == KeyLoopBody(source, i, dest)
         IN  IF r.res # "run" THEN [ok |-> FALSE, key |-> <<>>, err |-> r.res]
             ELSE KeyLoop(source, i + 1, r.dest)

\* Key::from_str as a function of its argument.
from_str(source) ==
    IF source = <<>> THEN [ok |-> FALSE, key |-> <<>>, err |-> "blank"]
    ELSE KeyLoop(source, 1, <<>>)

\* Bounds and inputs of the key-parsing specification.
MaxKeyLen == 4
KeyAlphabet == {"a", "B", "-", "_", " ", "."}

SomeFieldNameCamel ==
    <<"s","o","m","e","F","i","e","l","d","N","a","m","e">>
SomeFieldNameSnake ==
    <<"s","o","m","e","_","f","i","e","l","d","_","n","a","m","e">>
SomeFieldNameSpace ==
    <<"s","o","m","e"," ","f","i","e","l","d"," ","n","a","m","e">>
SomeFieldNameKebab ==
    <<"s","o","m","e","-","f","i","e","l","d","-","n","a","m","e">>

KeyExamples ==
    { SomeFieldNameCamel, SomeFieldNameSnake, SomeFieldNameSpace, SomeFieldNameKebab,
      <<"-","a","b","c">>, <<"a","b","c","-">>, <<"a","!","b">> }

KeyInit ==
    /\ kSource \in SeqsUpTo(KeyAlphabet, MaxKeyLen) \cup KeyExamples
    /\ kPos = 1
    /\ kDest = <<>>
    /\ kRes = "idle"

\* `if source.is_empty() { return Err(..) }`, then the loop is entered.
KeyBegin ==
    /\ kRes = "idle"
    /\ kRes' = IF kSource = <<>> THEN "blank" ELSE "run"
    /\ UNCHANGED <<kSource, kPos, kDest, notKey>>

KeyStep ==
    /\ kRes = "run"
    /\ kPos <= Len(kSource)
    /\ LET r == KeyLoopBody(kSource, kPos, kDest)
       IN  /\ kRes' = r.res
           /\ kDest' = r.dest
    /\ kPos' = kPos + 1
    /\ UNCHANGED <<kSource, notKey>>

\* `Ok(Key(dest))`
KeyDone ==
    /\ kRes = "run"
    /\ kPos > Len(kSource)
    /\ kRes' = "ok"
    /\ UNCHANGED <<kSource, kPos, kDest, notKey>>

(***************************************************************************)
(* Identifier identity (doc/ident.rs).                                     *)
(***************************************************************************)
\* impl PartialEq for Identifier, and a variant that also compares meta.
IdentEqWithMeta(lhs, rhs) == lhs.id = rhs.id /\ lhs.kind = rhs.kind /\ lhs.meta = rhs.meta

IdentEq(lhs, rhs) == lhs.id = rhs.id /\ lhs.kind = rhs.kind

\* impl PartialEq<Object> for Identifier
IdentEqObjectIdOnly(lhs, rhs) == lhs.id = rhs.id

IdentEqObject(lhs, rhs) == lhs.id = rhs.id /\ lhs.kind = rhs.kind

\* impl Hash for Identifier: the values fed to the hasher, in order.
IdentHashWithMeta(ident) == <<ident.id, ident.kind, ident.meta>>

IdentHash(ident) == <<ident.id, ident.kind>>

\* Identifier::new
IdentifierNew(kind, id) == [kind |-> kind, id |-> id, meta |-> <<>>]

IdKinds == {<<"u">>, <<"a">>}
IdIds   == {"1", "2"}
IdMetas == {<<>>, <<"m">>}
IdAttrs == {<<>>, <<"x">>}

IdentUniverse == [kind : IdKinds, id : IdIds, meta : IdMetas]
ObjectUniverse == [kind : IdKinds, id : IdIds, meta : IdMetas, attributes : IdAttrs]

IdentInit ==
    /\ iA \in IdentUniverse
    /\ iB \in IdentUniverse
    /\ iO \in ObjectUniverse
    /\ iOut = [done |-> FALSE]

IdentCompare ==
    /\ ~iOut.done
    /\ iOut' = [done  |-> TRUE,
                eq    |-> IdentEq(iA, iB),
                eqObj |-> IdentEqObject(iA, iO),
                hashA |-> IdentHash(iA),
                hashB |-> IdentHash(iB)]
    /\ UNCHANGED <<iA, iB, iO, notIdent>>

(***************************************************************************)
(* Inflate: the cursor over a document graph (doc/de.rs).                  *)
(*                                                                         *)
(* Strings are tuples of one-character strings.  An ordered map is a       *)
(* sequence of <<key, value>> pairs.  An Object is a record                *)
(* [kind, id, attributes, relationships]; a NewObject has an Option id.    *)
(* A Relationship is [data |-> Option Data] and a Data is                  *)
(* [card |-> "Member", v |-> Option Identifier] or                         *)
(* [card |-> "Collection", v |-> sequence of Identifiers].                 *)
(***************************************************************************)
K_type == <<"t", "y", "p", "e">>
K_id   == <<"i", "d">>

VNull   == [t |-> "Null"]
VStr(s) == [t |-> "String", v |-> s]

Member(o)      == [card |-> "Member", v |-> o]
Collection(xs) == [card |-> "Collection", v |-> xs]
Rel(data)      == [data |-> data]

SeqMin(S) == CHOOSE i \in S : \A j \in S : i <= j

\* mutant of RelHasData: a relationship without data counts as a field
RelHasDataAlways(rel) == TRUE

\* value.data.is_some()
RelHasData(rel) == IsSome(rel.data)

\* DocGraph::id: the stub for an identifier that has no object
DocGraph_id(id) ==
    [kind |-> id.kind, id |-> Some(id.id),
     attributes |-> NoneV, relationships |-> NoneV]

CountData(rels) ==
    Cardinality({i \in 1..Len(rels) : RelHasData(rels[i][2])})

\* DocGraph::object
DocGraph_object(object) ==
    [kind |-> object.kind, id |-> Some(object.id),
     attributes |-> Some(object.attributes),
     relationships |-> Some([len |-> CountData(object.relationships),
                             map |-> object.relationships])]

\* DocGraph::new_object: the id is the NewObject's Option
DocGraph_new_object(object) ==
    [kind |-> object.kind, id |-> object.id,
     attributes |-> Some(object.attributes),
     relationships |-> Some([len |-> CountData(object.relationships),
                             map |-> object.relationships])]

\* mutant of loopup: the search compares ids only
loopupIdOnly(id, included) ==
    LET hits == {i \in 1..Len(included) : included[i].id = id.id}
    IN  IF hits # {} THEN DocGraph_object(included[SeqMin(hits)])
        ELSE DocGraph_id(id)

\* mutant of loopup: the search runs over the set less its first member
loopupAfterFirst(id, included) ==
    LET hits == {i \in 2..Len(included) : IdentEqObject(id, included[i])}
    IN  IF hits # {} THEN DocGraph_object(included[SeqMin(hits)])
        ELSE DocGraph_id(id)

\* DocGraph::loopup: the first included object equal to the identifier,
\* else the stub
loopup(id, included) ==
    LET hits == {i \in 1..Len(included) : IdentEqObject(id, included[i])}
    IN  IF hits # {} THEN DocGraph_object(included[SeqMin(hits)])
        ELSE DocGraph_id(id)

OptLen(attr)    == IF IsSome(attr) THEN Len(Unwrap(attr)) ELSE 0
OptRelLen(rels) == IF IsSome(rels) THEN Unwrap(rels).len ELSE 0

\* DocGraph::len
DocGraph_len(g) == OptLen(g.attributes) + OptRelLen(g.relationships) + 2

DoneData == [st |-> "Done"]

\* MapDocGraph { data: DocData::Kind(..) } as visit_object builds it
KindData(g) ==
    [st |-> "Kind", key |-> g.kind, id |-> g.id,
     attr |-> g.attributes, rels |-> g.relationships]

\* mutant of MapDocGraph_len: the relationships still to come are not counted
MapDocGraph_lenNoRels(data) ==
    CASE data.st = "Kind" -> OptLen(data.attr) + 2
      [] data.st = "Id" -> OptLen(data.attr) + 1
      [] data.st = "Attributes" -> Len(data.attrIter)
      [] data.st = "Relationships" -> 0
      [] data.st = "Done" -> 0

\* MapDocGraph::len
MapDocGraph_len(data) ==
    CASE data.st = "Kind" -> OptLen(data.attr) + OptRelLen(data.rels) + 2
      [] data.st = "Id" -> OptLen(data.attr) + OptRelLen(data.rels) + 1
      [] data.st = "Attributes" -> Len(data.attrIter) + OptRelLen(data.rels)
      [] data.st = "Relationships" -> data.len
      [] data.st = "Done" -> 0

\* MapAccess::next_key_seed: the new cursor state and the Option key
RECURSIVE next_key_seed(_)
next_key_seed(data) ==
    CASE data.st = "Kind" -> [data |-> data, key |-> Some(K_type)]
      [] data.st = "Id" -> [data |-> data, key |-> Some(K_id)]
      [] data.st = "Attributes" ->
            IF data.attrIter # <<>>
            THEN [data |-> [st |-> "Attributes",
                            value |-> Some(Head(data.attrIter)[2]),
                            attrIter |-> Tail(data.attrIter),
                            rels |-> data.rels],
                  key |-> Some(Head(data.attrIter)[1])]
            ELSE IF IsSome(data.rels)
            THEN next_key_seed([st |-> "Relationships", value |-> NoneV,
                                len |-> Unwrap(data.rels).len,
                                relIter |-> Unwrap(data.rels).map])
            ELSE next_key_seed(DoneData)
      [] data.st = "Relationships" ->
            IF data.relIter # <<>>
            THEN IF RelHasData(Head(data.relIter)[2])
                 THEN [data |-> [st |-> "Relationships",
                                 value |-> Some(Head(data.relIter)[2]),
                                 len |-> data.len - 1,
                                 relIter |-> Tail(data.relIter)],
                       key |-> Some(Head(data.relIter)[1])]
                 ELSE next_key_seed([st |-> "Relationships", value |-> NoneV,
                                     len |-> data.len,
                                     relIter |-> Tail(data.relIter)])
            ELSE [data |-> DoneData, key |-> NoneV]
      [] data.st = "Done" -> [data |-> DoneData, key |-> NoneV]

\* What a cursor hands to the seed of a value pull.
PKey(k)        == [p |-> "key", v |-> k]
PString(s)     == [p |-> "string", v |-> s]
PValue(v)      == [p |-> "value", v |-> v]
PGraph(g, via) == [p |-> "graph", v |-> g, via |-> via]
PSeq(items)    == [p |-> "seq", v |-> items]
PErr(msg)      == [p |-> "err", v |-> msg]

Item(g, via) == [g |-> g, via |-> via]

\* data.into_iter().map(|id| DocGraph::loopup(id, included))
LoopupAll(ids, included) ==
    [i \in 1..Len(ids) |-> Item(loopup(ids[i], included), Some(ids[i]))]

\* the cursor state next_value_seed leaves behind when it leaves Kind or Id
AfterId(attr, rels) ==
    IF IsSome(attr)
    THEN [st |-> "Attributes", value |-> NoneV, attrIter |-> Unwrap(attr),
          rels |-> rels]
    ELSE IF IsSome(rels)
    THEN [st |-> "Relationships", value |-> NoneV, len |-> Unwrap(rels).len,
          relIter |-> Unwrap(rels).map]
    ELSE DoneData

\* mutant of RelValue: the identifier of a to-one relationship is not looked up
RelValueNoLookup(rel, included) ==
    IF ~IsSome(rel.data) THEN PErr("panic")
    ELSE LET d == Unwrap(rel.data)
         IN  IF d.card = "Member"
             THEN IF IsSome(d.v)
                  THEN PGraph(DocGraph_id(Unwrap(d.v)), d.v)
                  ELSE PValue(VNull)
             ELSE PSeq(LoopupAll(d.v, included))

\* the Relationships arm of next_value_seed, for a relationship in hand
RelValue(rel, included) ==
    IF ~IsSome(rel.data) THEN PErr("panic")
    ELSE LET d == Unwrap(rel.data)
         IN  IF d.card = "Member"
             THEN IF IsSome(d.v)
                  THEN PGraph(loopup(Unwrap(d.v), included), d.v)
                  ELSE PValue(VNull)
             ELSE PSeq(LoopupAll(d.v, included))

\* mutant of next_value_seed: a value that was pulled stays in the cursor
next_value_seedKeepsValue(data, included) ==
    CASE data.st = "Kind" ->
            [data |-> IF IsSome(data.id)
                      THEN [st |-> "Id", id |-> Unwrap(data.id),
                            attr |-> data.attr, rels |-> data.rels]
                      ELSE AfterId(data.attr, data.rels),
             res |-> PKey(data.key)]
      [] data.st = "Id" ->
            [data |-> AfterId(data.attr, data.rels),
             res |-> PString(data.id)]
      [] data.st = "Attributes" ->
            [data |-> data,
             res |-> IF IsSome(data.value) THEN PValue(Unwrap(data.value))
                     ELSE PErr("attribute value is missing")]
      [] data.st = "Relationships" ->
            [data |-> data,
             res |-> IF IsSome(data.value)
                     THEN RelValue(Unwrap(data.value), included)
                     ELSE PErr("relationship value is missing")]
      [] data.st = "Done" ->
            [data |-> DoneData, res |-> PErr("premature done is missing")]

\* MapAccess::next_value_seed: the new cursor state and what the seed is given
next_value_seed(data, included) ==
    CASE data.st = "Kind" ->
            [data |-> IF IsSome(data.id)
                      THEN [st |-> "Id", id |-> Unwrap(data.id),
                            attr |-> data.attr, rels |-> data.rels]
                      ELSE AfterId(data.attr, data.rels),
             res |-> PKey(data.key)]
      [] data.st = "Id" ->
            [data |-> AfterId(data.attr, data.rels),
             res |-> PString(data.id)]
      [] data.st = "Attributes" ->
            [data |-> [data EXCEPT !.value = NoneV],
             res |-> IF IsSome(data.value) THEN PValue(Unwrap(data.value))
                     ELSE PErr("attribute value is missing")]
      [] data.st = "Relationships" ->
            [data |-> [data EXCEPT !.value = NoneV],
             res |-> IF IsSome(data.value)
                     THEN RelValue(Unwrap(data.value), included)
                     ELSE PErr("relationship value is missing")]
      [] data.st = "Done" ->
            [data |-> DoneData, res |-> PErr("premature done is missing")]

\* What the target schema builds from what it is given.
OStr(s)  == [t |-> "Str", v |-> s]
OVal(v)  == [t |-> "Val", v |-> v]
OMap(es) == [t |-> "Map", v |-> es]
OSeq(xs) == [t |-> "Seq", v |-> xs]
OUnit    == [t |-> "Unit"]

\* The ways a schema asks for a resource cursor: as a map (deserialize_any,
\* visit_object), as a string (deserialize_string) or not at all
\* (deserialize_ignored_any).
Modes == {"map", "string", "ignored"}

\* A MapDocGraph in use by a visitor.  src, via, keys, out, pending, alt and
\* ended are history: the graph it walks, the identifier it was looked up
\* from, the names handed out, the <<name, value>> pairs consumed, the name
\* whose value is still to be pulled, whether name and value pulls have
\* alternated so far, and whether "no more fields" was returned.
MapFrame(g, via) ==
    [f |-> "map", data |-> KindData(g), src |-> g, via |-> via,
     keys |-> <<>>, out |-> <<>>, pending |-> NoneV, alt |-> TRUE,
     ended |-> FALSE]

\* A SeqDeserializer in use by a visitor.
SeqFrame(items) ==
    [f |-> "seq", iter |-> items, len |-> Len(items), out |-> <<>>,
     ended |-> FALSE]

Top(stack)  == stack[Len(stack)]
Rest(stack) == SubSeq(stack, 1, Len(stack) - 1)

Running(stack)       == [stack |-> stack, status |-> "run", value |-> OUnit, err |-> <<>>]
Failed(msg)          == [stack |-> <<>>, status |-> "err", value |-> OUnit, err |-> <<msg>>]
Succeeded(val)       == [stack |-> <<>>, status |-> "ok", value |-> val, err |-> <<>>]

\* A value reaches the visitor that asked for it: the enclosing cursor's
\* visitor, or the caller of from_doc.
Deliver(stack, val) ==
    IF stack = <<>> THEN Succeeded(val)
    ELSE IF Top(stack).f = "map"
    THEN Running(Append(Rest(stack),
             [Top(stack) EXCEPT !.out = Append(@, <<Top(stack).pending, val>>),
                                !.pending = NoneV]))
    ELSE Running(Append(Rest(stack),
             [Top(stack) EXCEPT !.out = Append(@, val)]))

\* mutant of DeserializeGraph: a request for a string walks the fields
DeserializeGraphAlwaysMap(stack, g, via, mode) ==
    IF mode = "ignored" THEN Deliver(stack, OUnit)
    ELSE Running(Append(stack, MapFrame(g, via)))

\* Deserializer for DocGraph, by the method the schema calls
DeserializeGraph(stack, g, via, mode) ==
    CASE mode = "map" -> Running(Append(stack, MapFrame(g, via)))
      [] mode = "string" ->
            IF IsSome(g.id) THEN Deliver(stack, OStr(Unwrap(g.id)))
            ELSE Failed("invalid_type")
      [] mode = "ignored" -> Deliver(stack, OUnit)

\* SeqDeserializer::deserialize_any, up to the call of the visitor
DeserializeSeq(stack, items) ==
    IF Len(items) = 0 THEN Deliver(stack, OUnit)
    ELSE Running(Append(stack, SeqFrame(items)))

\* seed.deserialize(..) of what next_value_seed produced
Present(stack, res, mode) ==
    CASE res.p \in {"key", "string"} -> Deliver(stack, OStr(res.v))
      [] res.p = "value" -> Deliver(stack, OVal(res.v))
      [] res.p = "graph" -> DeserializeGraph(stack, res.v, res.via, mode)
      [] res.p = "seq" -> DeserializeSeq(stack, res.v)
      [] res.p = "err" -> Failed(res.v)

\* PrimaryData::deserializer of the three kinds of primary data
ItemDeserializer(ptype, item) ==
    CASE ptype = "Object" -> DocGraph_object(item)
      [] ptype = "NewObject" -> DocGraph_new_object(item)
      [] ptype = "Identifier" -> DocGraph_id(item)

(***************************************************************************)
(* The documents inflated.                                                 *)
(***************************************************************************)
Articles   == <<"a", "r", "t", "i", "c", "l", "e", "s">>
Users      == <<"u", "s", "e", "r", "s">>
Comments   == <<"c", "o", "m", "m", "e", "n", "t", "s">>
K_title    == <<"t", "i", "t", "l", "e">>
K_name     == <<"n", "a", "m", "e">>
K_text     == <<"t", "e", "x", "t">>
K_author   == <<"a", "u", "t", "h", "o", "r">>
K_editor   == <<"e", "d", "i", "t", "o", "r">>
K_comments == <<"c", "o", "m", "m", "e", "n", "t", "s">>
K_tags     == <<"t", "a", "g", "s">>
K_latest   == <<"l", "a", "t", "e", "s", "t">>

Id(kind, id) == [kind |-> kind, id |-> id, meta |-> <<>>]
Obj(kind, id, attributes, relationships) ==
    [kind |-> kind, id |-> id, attributes |-> attributes,
     relationships |-> relationships]
ToOne(key, id)   == <<key, Rel(Some(Member(Some(id))))>>
ToNull(key)      == <<key, Rel(Some(Member(NoneV)))>>
ToMany(key, ids) == <<key, Rel(Some(Collection(ids)))>>
NoData(key)      == <<key, Rel(NoneV)>>
Attr(key, s)     == <<key, VStr(s)>>

User9    == Obj(Users, <<"9">>, <<Attr(K_name, <<"A">>)>>, <<>>)
User9b   == Obj(Users, <<"9">>, <<Attr(K_name, <<"B">>)>>, <<>>)
Article1 == Obj(Articles, <<"1">>, <<Attr(K_title, <<"T">>)>>,
                <<ToOne(K_author, Id(Users, <<"9">>))>>)
Article2 == Obj(Articles, <<"2">>, <<Attr(K_title, <<"U">>)>>, <<>>)
Comment9 == Obj(Comments, <<"9">>, <<Attr(K_text, <<"x">>)>>, <<>>)
Comment5 == Obj(Comments, <<"5">>, <<Attr(K_text, <<"y">>)>>, <<>>)

OkDoc(ptype, data, included) ==
    [ok |-> TRUE, ptype |-> ptype, data |-> data, included |-> included]
\* DocumentError and Document::Err; an ErrorObject is a name
DocumentError(errors) == [errors |-> errors]
DocErr(e)             == [ok |-> FALSE, error |-> e]

ErrDoc  == DocErr(DocumentError(<<"e1">>))
ErrDoc2 == DocErr(DocumentError(<<"e1", "e2">>))

\* article 1 with author users/9, users/9 included
ScenarioDoc == OkDoc("Object", Member(Some(Article1)), <<User9>>)
\* the author is not included
StubDoc == OkDoc("Object", Member(Some(Article1)), <<>>)
\* the author is not included, but comments/9 is
OtherKindDoc == OkDoc("Object", Member(Some(Article1)), <<Comment9>>)
\* users/9 is included twice
TwiceDoc == OkDoc("Object", Member(Some(Article1)), <<User9, User9b>>)
\* a relationship without data, then a to-one relationship to nothing
NullDoc ==
    OkDoc("Object",
          Member(Some(Obj(Articles, <<"1">>, <<>>,
                          <<NoData(K_editor), ToNull(K_author)>>))),
          <<User9>>)
\* a to-many relationship of two, one of them included, and an empty one
ManyDoc ==
    OkDoc("Object",
          Member(Some(Obj(Articles, <<"1">>, <<>>,
                          <<ToMany(K_comments, <<Id(Comments, <<"5">>),
                                                 Id(Comments, <<"6">>)>>),
                            ToMany(K_tags, <<>>)>>))),
          <<Comment5>>)
\* article 1 -> users/9 -> article 1
CycleDoc ==
    OkDoc("Object", Member(Some(Article1)),
          <<Obj(Users, <<"9">>, <<>>,
                <<ToOne(K_latest, Id(Articles, <<"1">>))>>),
            Article1>>)
\* a collection of primary data
ListDoc == OkDoc("Object", Collection(<<Article2, Article1>>), <<>>)
EmptyListDoc == OkDoc("Object", Collection(<<>>), <<>>)
\* a new resource without an id
NewDoc ==
    OkDoc("NewObject",
          Member(Some([kind |-> Articles, id |-> NoneV,
                       attributes |-> <<Attr(K_title, <<"T">>)>>,
                       relationships |-> <<>>])),
          <<>>)
\* an identifier as primary data
IdentDoc == OkDoc("Identifier", Member(Some(Id(Users, <<"9">>))), <<User9>>)
\* no primary data
NoneDoc == OkDoc("Object", Member(NoneV), <<>>)

Docs == {ScenarioDoc, StubDoc, OtherKindDoc, TwiceDoc, NullDoc, ManyDoc,
         CycleDoc, ListDoc, EmptyListDoc, NewDoc, IdentDoc, NoneDoc, ErrDoc,
         ErrDoc2}

\* How many pulls of one decode are out of turn (a name pulled while the
\* value of the last name is still to be pulled, or a value pulled without
\* its name), and how deep the schema nests.
MaxSkew  == 1
MaxDepth == 3

(***************************************************************************)
(* from_doc and the pulls of the target schema.                            *)
(***************************************************************************)
InflInit ==
    /\ gDoc \in Docs
    /\ gStack = <<>>
    /\ gStatus = "idle"
    /\ gValue = OUnit
    /\ gErr = <<>>
    /\ gFin = NoneV
    /\ gSkew = 0

InflSet(r) ==
    /\ Len(r.stack) <= MaxDepth
    /\ gStack' = r.stack
    /\ gStatus' = r.status
    /\ gValue' = r.value
    /\ gErr' = r.err

\* mutant of FailedDocument: the error says no more than that the document
\* is an error
FailedDocumentBare(e) == Failed("document")

\* Err(e)?: ParseDocumentError::Document(e), the variant and then the
\* errors of e
FailedDocument(e) ==
    [stack |-> <<>>, status |-> "err", value |-> OUnit,
     err |-> <<"document">> \o e.errors]

from_doc(mode) ==
    /\ gStatus = "idle"
    /\ InflSet(IF ~gDoc.ok THEN FailedDocument(gDoc.error)
               ELSE IF gDoc.data.card = "Member"
               THEN IF IsSome(gDoc.data.v)
                    THEN DeserializeGraph(<<>>,
                             ItemDeserializer(gDoc.ptype, Unwrap(gDoc.data.v)),
                             NoneV, mode)
                    ELSE Deliver(<<>>, OVal(VNull))
               ELSE DeserializeSeq(<<>>,
                        [i \in 1..Len(gDoc.data.v) |->
                            Item(ItemDeserializer(gDoc.ptype, gDoc.data.v[i]),
                                 NoneV)]))
    /\ UNCHANGED <<gDoc, gFin, gSkew, notInfl>>

\* a pull, out of turn or not
Skew(outOfTurn) ==
    IF outOfTurn THEN gSkew < MaxSkew /\ gSkew' = gSkew + 1
    ELSE gSkew' = gSkew

OnMap == gStatus = "run" /\ gStack # <<>> /\ Top(gStack).f = "map"
OnSeq == gStatus = "run" /\ gStack # <<>> /\ Top(gStack).f = "seq"

\* mutant of PullKey: the cursor of a to-one relationship is made when its
\* name is handed out
PullKeyEager ==
    /\ OnMap
    /\ LET top == Top(gStack)
           r   == next_key_seed(top.data)
           new == [top EXCEPT !.data = r.data,
                              !.keys = IF IsSome(r.key)
                                       THEN Append(@, Unwrap(r.key)) ELSE @,
                              !.pending = IF IsSome(r.key) THEN r.key ELSE @,
                              !.alt = @ /\ ~IsSome(top.pending),
                              !.ended = @ \/ ~IsSome(r.key)]
           rel == IF r.data.st = "Relationships" /\ IsSome(r.data.value)
                  THEN Unwrap(r.data.value).data ELSE NoneV
       IN  /\ Skew(IsSome(top.pending))
           /\ gStack' =
                 IF /\ IsSome(rel)
                    /\ Unwrap(rel).card = "Member"
                    /\ IsSome(Unwrap(rel).v)
                    /\ Len(gStack) < MaxDepth
                 THEN Append(Append(Rest(gStack), new),
                             MapFrame(loopup(Unwrap(Unwrap(rel).v),
                                             gDoc.included),
                                      Unwrap(rel).v))
                 ELSE Append(Rest(gStack), new)
    /\ UNCHANGED <<gDoc, gStatus, gValue, gErr, gFin, notInfl>>

\* the visitor calls next_key_seed
PullKey ==
    /\ OnMap
    /\ LET top == Top(gStack)
           r   == next_key_seed(top.data)
       IN  /\ Skew(IsSome(top.pending))
           /\ gStack' = Append(Rest(gStack),
               [top EXCEPT !.data = r.data,
                           !.keys = IF IsSome(r.key)
                                    THEN Append(@, Unwrap(r.key)) ELSE @,
                           !.pending = IF IsSome(r.key) THEN r.key ELSE @,
                           !.alt = @ /\ ~IsSome(top.pending),
                           !.ended = @ \/ ~IsSome(r.key)])
    /\ UNCHANGED <<gDoc, gStatus, gValue, gErr, gFin, notInfl>>

\* the visitor calls next_value_seed, with a seed that deserializes by mode
PullValue(mode) ==
    /\ OnMap
    /\ LET top == Top(gStack)
           r   == next_value_seed(top.data, gDoc.included)
           new == [top EXCEPT !.data = r.data,
                              !.alt = @ /\ IsSome(top.pending)]
       IN  /\ Skew(~IsSome(top.pending))
           /\ InflSet(Present(Append(Rest(gStack), new), r.res, mode))
    /\ UNCHANGED <<gDoc, gFin, notInfl>>

\* the visitor calls next_element_seed
PullElement(mode) ==
    /\ OnSeq
    /\ LET top == Top(gStack)
       IN  IF top.iter # <<>>
           THEN InflSet(DeserializeGraph(
                    Append(Rest(gStack), [top EXCEPT !.iter = Tail(@)]),
                    Head(top.iter).g, Head(top.iter).via, mode))
           ELSE InflSet(Running(Append(Rest(gStack),
                    [top EXCEPT !.ended = TRUE])))
    /\ UNCHANGED <<gDoc, gFin, gSkew, notInfl>>

\* the visitor of an object returns: the rest of visit_object
FinishObject ==
    /\ OnMap
    /\ LET top == Top(gStack)
           remaining == MapDocGraph_len(top.data)
       IN  /\ InflSet(IF remaining = 0
                      THEN Deliver(Rest(gStack), OMap(top.out))
                      ELSE Failed("invalid_length"))
           /\ gFin' = Some([src |-> top.src, via |-> top.via,
                            keys |-> top.keys, out |-> top.out,
                            pending |-> top.pending,
                            alt |-> top.alt, ended |-> top.ended,
                            ok |-> remaining = 0])
    /\ UNCHANGED <<gDoc, gSkew, notInfl>>

\* mutant of FinishSeq: what the visitor returns is passed on whatever is
\* left in the iterator
FinishSeqNoCheck ==
    /\ OnSeq
    /\ InflSet(Deliver(Rest(gStack), OSeq(Top(gStack).out)))
    /\ UNCHANGED <<gDoc, gFin, gSkew, notInfl>>

\* the visitor of a sequence returns: the rest of
\* SeqDeserializer::deserialize_any
FinishSeq ==
    /\ OnSeq
    /\ InflSet(IF Len(Top(gStack).iter) = 0
               THEN Deliver(Rest(gStack), OSeq(Top(gStack).out))
               ELSE Failed("invalid_length"))
    /\ UNCHANGED <<gDoc, gFin, gSkew, notInfl>>

(***************************************************************************)
(* Deflate: the Executor (view/executor.rs) and what resource! expands to  *)
(* (resource.rs).                                                          *)
(*                                                                         *)
(* A Path is a sequence of Keys.  A Query is                               *)
(* [fields |-> a function from kinds to sets of Keys, include |-> a set of *)
(* Paths].  The included Set<Object> is a sequence without repetition, in  *)
(* insertion order.                                                        *)
(***************************************************************************)
\* Path::new and Path::join
Path_new == <<>>
Path_join(path, key) == Append(path, key)

\* Object's Eq: kind and id
ObjectEq(a, b) == a.kind = b.kind /\ a.id = b.id

\* Set::insert: the set afterwards and whether the value was added
Set_insert(set, value) ==
    IF \E i \in 1..Len(set) : ObjectEq(set[i], value)
    THEN [set |-> set, added |-> FALSE]
    ELSE [set |-> Append(set, value), added |-> TRUE]

\* Map::insert: a key already present keeps its place and takes the value
Map_insert(map, key, value) ==
    IF \E i \in 1..Len(map) : map[i][1] = key
    THEN [i \in 1..Len(map) |->
             IF map[i][1] = key THEN <<key, value>> ELSE map[i]]
    ELSE Append(map, <<key, value>>)

\* Executor::new: the root frame
Executor_new == [path |-> Path_new]

\* mutant of fork: the child's path is the key alone
forkKeyOnly(executor, key) == [path |-> Path_join(Path_new, key)]

\* mutant of fork: the child keeps the parent's path
forkSamePath(executor, key) == [path |-> executor.path]

\* Executor::fork
fork(executor, key) == [path |-> Path_join(executor.path, key)]

\* mutant of field: no fieldset means nothing is allowed
fieldDenyDefault(query, kind, name) ==
    IF IsSome(query) /\ kind \in DOMAIN Unwrap(query).fields
    THEN name \in Unwrap(query).fields[kind]
    ELSE FALSE

\* Executor::field: name is the text written in the declaration
field(query, kind, name) ==
    IF IsSome(query) /\ kind \in DOMAIN Unwrap(query).fields
    THEN name \in Unwrap(query).fields[kind]
    ELSE TRUE

\* mutant of key_included: the test is made of the frame the relationship is
\* declared in
key_includedParent(query, executor, key) ==
    IF IsSome(query)
    THEN executor.path = Path_new \/ executor.path \in Unwrap(query).include
    ELSE FALSE

\* Executor::key_included
key_included(query, executor, key) ==
    IF IsSome(query)
    THEN Path_join(executor.path, key) \in Unwrap(query).include
    ELSE FALSE

\* mutant of included: every frame counts as included
includedAlways(query, executor) == TRUE

\* Executor::included
included(query, executor) ==
    IF IsSome(query) THEN executor.path \in Unwrap(query).include ELSE FALSE

\* mutant of include: the object is added whatever the set holds
includeNoDedup(incl, value) == [set |-> Append(incl, value), added |-> TRUE]

\* mutant of include: the answer is true whether or not the set changed
includeAnswersTrue(incl, value) ==
    [set |-> Set_insert(incl, value).set, added |-> TRUE]

\* Executor::include
include(incl, value) == Set_insert(incl, value)

\* Identifier::from(&Object)
IdentifierFrom(object) == Id(object.kind, object.id)

(***************************************************************************)
(* Value and the generic JSON value (value/convert.rs).                    *)
(*                                                                         *)
(* A Value is Null, Bool, Number, String, Array (a sequence of Values) or  *)
(* Object (an ordered map from Key to Value).  A JsonValue has the same    *)
(* shapes under tags of its own; the keys of its objects are any strings,  *)
(* kept in insertion order when serde_json is built with preserve_order    *)
(* and in sorted order otherwise.                                          *)
(***************************************************************************)
VBool(b) == [t |-> "Bool", v |-> b]
VNum(n)  == [t |-> "Number", v |-> n]
VArr(xs) == [t |-> "Array", v |-> xs]
VObj(m)  == [t |-> "Object", v |-> m]

JNull    == [t |-> "JNull"]
JBool(b) == [t |-> "JBool", v |-> b]
JNum(n)  == [t |-> "JNumber", v |-> n]
JStr(s)  == [t |-> "JString", v |-> s]
JArr(xs) == [t |-> "JArray", v |-> xs]
JObj(m)  == [t |-> "JObject", v |-> m]

\* the order of String
RECURSIVE StrLess(_, _)
StrLess(a, b) ==
    IF b = <<>> THEN FALSE
    ELSE IF a = <<>> THEN TRUE
    ELSE IF Ord(Head(a)) # Ord(Head(b)) THEN Ord(Head(a)) < Ord(Head(b))
    ELSE StrLess(Tail(a), Tail(b))

SortedInsert(sorted, pair) ==
    LET n == Cardinality({i \in 1..Len(sorted) : StrLess(sorted[i][1], pair[1])})
    IN  SubSeq(sorted, 1, n) \o <<pair>> \o SubSeq(sorted, n + 1, Len(sorted))

RECURSIVE SortPairs(_)
SortPairs(pairs) ==
    IF pairs = <<>> THEN <<>>
    ELSE SortedInsert(SortPairs(Tail(pairs)), Head(pairs))

\* .collect() into a serde_json::Map<String, JsonValue>
JsonMapCollect(pairs, ordered) ==
    IF ordered THEN pairs ELSE SortPairs(pairs)

\* to_json; String::from(k) is the text of the Key
RECURSIVE to_json(_, _)
to_json(value, ordered) ==
    CASE value.t = "Null" -> JNull
      [] value.t = "Array" ->
            JArr([i \in 1..Len(value.v) |-> to_json(value.v[i], ordered)])
      [] value.t = "Bool" -> JBool(value.v)
      [] value.t = "Number" -> JNum(value.v)
      [] value.t = "Object" ->
            JObj(JsonMapCollect(
                [i \in 1..Len(value.v) |->
                    <<value.v[i][1], to_json(value.v[i][2], ordered)>>],
                ordered))
      [] value.t = "String" -> JStr(value.v)

\* Result<Value, ParseKeyError>
ValueOk(v)           == [ok |-> TRUE, val |-> Some(v), err |-> NoneV]
ValueErr(source, why) ==
    [ok |-> FALSE, val |-> NoneV, err |-> Some([source |-> source, why |-> why])]

RECURSIVE from_json(_)
RECURSIVE FromJsonItems(_, _)
RECURSIVE FromJsonEntriesSkipInvalid(_, _)
RECURSIVE FromJsonEntries(_, _)

\* data.into_iter().map(from_json).collect(): the first Err ends it
FromJsonItems(items, out) ==
    IF items = <<>> THEN ValueOk(VArr(out))
    ELSE LET r == from_json(Head(items))
         IN  IF r.ok THEN FromJsonItems(Tail(items), Append(out, Unwrap(r.val)))
             ELSE r

\* mutant of FromJsonEntries: an entry whose key does not parse is left out
FromJsonEntriesSkipInvalid(entries, out) ==
    IF entries = <<>> THEN ValueOk(VObj(out))
    ELSE LET k == from_str(Head(entries)[1])
         IN  IF ~k.ok THEN FromJsonEntriesSkipInvalid(Tail(entries), out)
             ELSE LET r == from_json(Head(entries)[2])
                  IN  IF r.ok
                      THEN FromJsonEntriesSkipInvalid(Tail(entries),
                               Map_insert(out, k.key, Unwrap(r.val)))
                      ELSE r

\* data.into_iter().map(|(k, v)| Ok((k.parse()?, from_json(v)?))).collect()
FromJsonEntries(entries, out) ==
    IF entries = <<>> THEN ValueOk(VObj(out))
    ELSE LET k == from_str(Head(entries)[1])
         IN  IF ~k.ok THEN ValueErr(Head(entries)[1], k.err)
             ELSE LET r == from_json(Head(entries)[2])
                  IN  IF r.ok
                      THEN FromJsonEntries(Tail(entries),
                               Map_insert(out, k.key, Unwrap(r.val)))
                      ELSE r

from_json(value) ==
    CASE value.t = "JNull" -> ValueOk(VNull)
      [] value.t = "JArray" -> FromJsonItems(value.v, <<>>)
      [] value.t = "JBool" -> ValueOk(VBool(value.v))
      [] value.t = "JNumber" -> ValueOk(VNum(value.v))
      [] value.t = "JObject" -> FromJsonEntries(value.v, <<>>)
      [] value.t = "JString" -> ValueOk(VStr(value.v))

(***************************************************************************)
(* The application's resources, as resource! declares them.  An attribute  *)
(* is <<name as written, the JSON value its expression serializes to>>; a  *)
(* relationship is                                                         *)
(* [name as written, card "one" | "many", form "data" | "both" |           *)
(* "included" | "none", one |-> Option resource, many |-> resources].      *)
(***************************************************************************)
R_word_count    == <<"w", "o", "r", "d", "_", "c", "o", "u", "n", "t">>
K_word_count    == <<"w", "o", "r", "d", "-", "c", "o", "u", "n", "t">>
R_best_comments == <<"b", "e", "s", "t", "_", "c", "o", "m", "m", "e", "n",
                     "t", "s">>
K_best_comments == <<"b", "e", "s", "t", "-", "c", "o", "m", "m", "e", "n",
                     "t", "s">>
K_dad           == <<"d", "a", "d">>
R_bad           == <<"a", ".">>
K_extra         == <<"e", "x", "t", "r", "a">>

Field(name, s) == <<name, JStr(s)>>

HasOne(name, form, one) ==
    [name |-> name, card |-> "one", form |-> form, one |-> one,
     many |-> <<>>]
HasMany(name, form, many) ==
    [name |-> name, card |-> "many", form |-> form, one |-> NoneV,
     many |-> many]

ArticleDecl(id, title, words, w) ==
    [kind |-> Articles, id |-> id,
     attrs |-> <<Field(K_title, title), Field(R_word_count, words)>>,
     rels |-> <<HasOne(K_author, "data", w.author),
                HasMany(K_comments, "data", w.comments),
                HasOne(K_editor, "included", w.editor),
                HasMany(R_best_comments, "both", w.best),
                HasOne(K_dad, "none", NoneV)>>]
UserDecl(id, name, latest) ==
    [kind |-> Users, id |-> id, attrs |-> <<Field(K_name, name)>>,
     rels |-> <<HasOne(K_latest, "data", latest),
                HasMany(K_tags, "none", <<>>)>>]
CommentDecl(id, text, author) ==
    [kind |-> Comments, id |-> id, attrs |-> <<Field(K_text, text)>>,
     rels |-> <<HasOne(K_author, "data", Some(author))>>]

Article2Links ==
    [author |-> Some("u9"), comments |-> <<>>, editor |-> NoneV,
     best |-> <<>>]

Declared(w, ref) ==
    CASE ref = "a1" -> ArticleDecl(<<"1">>, <<"T">>, <<"7">>, w)
      [] ref = "a2" -> ArticleDecl(<<"2">>, <<"U">>, <<"8">>, Article2Links)
      [] ref = "u9" -> UserDecl(<<"9">>, <<"A">>, w.latest)
      [] ref = "u8" -> UserDecl(<<"8">>, <<"B">>, NoneV)
      [] ref = "c5" -> CommentDecl(<<"5">>, <<"x">>, "u9")
      [] ref = "c6" -> CommentDecl(<<"6">>, <<"y">>, "u8")

\* A declaration with one more step, which fails: an attribute or a
\* relationship whose name is not a member name, or an attribute whose
\* value serializes to an object with such a name in it.
Broken(d, how) ==
    CASE how = "attr" -> [d EXCEPT !.attrs = Append(@, Field(R_bad, <<"z">>))]
      [] how = "value" ->
            [d EXCEPT !.attrs =
                 Append(@, <<K_extra, JObj(<<<<R_bad, JNull>>>>)>>)]
      [] how = "rel" -> [d EXCEPT !.rels = Append(@, HasOne(R_bad, "none", NoneV))]

Resource(w, ref) ==
    IF IsSome(w.fail) /\ Unwrap(w.fail)[1] = ref
    THEN Broken(Declared(w, ref), Unwrap(w.fail)[2])
    ELSE Declared(w, ref)

Failures == {<<"a2", "attr">>, <<"c6", "rel">>, <<"u8", "value">>}

Refs == {"a1", "a2", "u9", "u8", "c5", "c6"}

\* What resolve is called on: one resource (many is FALSE and slice holds
\* it) or a slice of resources.  The declarations with a failing step are
\* tried on the articles that have an editor and whose author has no latest
\* article.
Slices == {<<>>, <<"a1">>, <<"a1", "a2">>}

Worlds ==
  {w \in
    [author : {NoneV, Some("u9")},
     comments : {<<>>, <<"c5", "c6">>},
     editor : {NoneV, Some("u8")},
     best : {<<"c5">>},
     latest : {NoneV, Some("a1")},
     many : BOOLEAN,
     slice : Slices,
     fail : {NoneV} \cup {Some(f) : f \in Failures}] :
    /\ ~w.many => w.slice = <<"a1">>
    /\ IsSome(w.fail) => w.latest = NoneV /\ w.editor = Some("u8")}

NoFields == <<>>
FieldSets ==
    {NoFields,
     Articles :> {K_title},
     Articles :> {K_title, K_author, K_comments},
     Articles :> {K_word_count, K_best_comments, K_editor, K_dad},
     Users :> {}}

AllIncludes ==
    {<<K_author>>, <<K_comments>>, <<K_comments, K_author>>, <<K_editor>>,
     <<K_best_comments>>, <<K_best_comments, K_author>>}
IncludeSets ==
    {{},
     {<<K_author>>},
     {<<K_comments>>},
     {<<K_comments, K_author>>},
     {<<K_comments>>, <<K_comments, K_author>>},
     {<<K_author>>, <<K_author, K_latest>>},
     {<<K_author>>, <<K_author, K_latest>>, <<K_author, K_latest, K_author>>},
     {<<K_editor>>, <<K_best_comments>>},
     AllIncludes}

Queries ==
    {NoneV} \cup {Some([fields |-> f, include |-> i]) :
                     f \in FieldSets, i \in IncludeSets}

(***************************************************************************)
(* to_object, one step at a time.                                          *)
(***************************************************************************)
\* Resource::to_ident
to_ident(w, ref) == IdentifierNew(Resource(w, ref).kind, Resource(w, ref).id)

\* expand_resource_impl! @attrs, from the i-th declared attribute on
\* mutant of RenderAttrs: an attribute that fails is left out
RECURSIVE RenderAttrsSkipFailed(_, _, _, _)
RenderAttrsSkipFailed(query, res, i, attrs) ==
    IF i > Len(res.attrs) THEN [ok |-> TRUE, attrs |-> attrs]
    ELSE IF field(query, res.kind, res.attrs[i][1])
    THEN LET key   == from_str(res.attrs[i][1])
             value == from_json(res.attrs[i][2])
         IN  IF key.ok /\ value.ok
             THEN RenderAttrsSkipFailed(query, res, i + 1,
                      Map_insert(attrs, key.key, Unwrap(value.val)))
             ELSE RenderAttrsSkipFailed(query, res, i + 1, attrs)
    ELSE RenderAttrsSkipFailed(query, res, i + 1, attrs)

\* expand_resource_impl! @attrs, from the i-th declared attribute on:
\* the fieldset test, the key, to_value, insert
RECURSIVE RenderAttrs(_, _, _, _)
RenderAttrs(query, res, i, attrs) ==
    IF i > Len(res.attrs) THEN [ok |-> TRUE, attrs |-> attrs]
    ELSE IF field(query, res.kind, res.attrs[i][1])
    THEN LET key   == from_str(res.attrs[i][1])
             value == from_json(res.attrs[i][2])
         IN  IF key.ok /\ value.ok
             THEN RenderAttrs(query, res, i + 1,
                      Map_insert(attrs, key.key, Unwrap(value.val)))
             ELSE [ok |-> FALSE, attrs |-> attrs]
    ELSE RenderAttrs(query, res, i + 1, attrs)

\* A to_object call in progress: the resource, the Executor it was given,
\* the Object so far, the next declared relationship and the relationship
\* being rendered, if any.
Frame(ref, executor, obj) ==
    [ref |-> ref, exec |-> executor, obj |-> obj, pc |-> 1, cur |-> NoneV]

\* The relationship being rendered: its key, the forked Executor, the data
\* so far, the resources still to render with to_object, and whether the
\* identifiers are taken from the rendered Objects.
Cur(key, child, data, todo, collect) ==
    [key |-> key, exec |-> child, data |-> data, todo |-> todo,
     collect |-> collect]

Idents(w, refs) == [i \in 1..Len(refs) |-> to_ident(w, refs[i])]
OptIdent(w, one) == IF IsSome(one) THEN Some(to_ident(w, Unwrap(one))) ELSE NoneV
OptTodo(one) == IF IsSome(one) THEN <<Unwrap(one)>> ELSE <<>>

\* mutant of NoBlocks: the relationship is given a null
NoBlocksNull(key, child) == Cur(key, child, Some(Member(NoneV)), <<>>, FALSE)

\* expand_rel_data_impl! on a body with neither data nor included: the data
\* stays None
NoBlocks(key, child) == Cur(key, child, NoneV, <<>>, FALSE)

\* expand_rel_data_impl!, up to the first to_object call
BeginRel(w, query, executor, key, d) ==
    LET child == fork(executor, key)
    IN  CASE d.card = "one" /\ d.form = "data" ->
                Cur(key, child, Some(Member(OptIdent(w, d.one))),
                    IF included(query, child) THEN OptTodo(d.one) ELSE <<>>,
                    FALSE)
          [] d.card = "one" /\ d.form = "both" ->
                Cur(key, child, Some(Member(OptIdent(w, d.one))),
                    IF key_included(query, executor, key)
                    THEN OptTodo(d.one) ELSE <<>>,
                    FALSE)
          [] d.card = "one" /\ d.form = "included" ->
                IF key_included(query, executor, key)
                THEN Cur(key, child, Some(Member(OptIdent(w, d.one))),
                         OptTodo(d.one), FALSE)
                ELSE Cur(key, child, NoneV, <<>>, FALSE)
          [] d.card = "many" /\ d.form = "data" ->
                IF included(query, child)
                THEN Cur(key, child, Some(Collection(<<>>)), d.many, TRUE)
                ELSE Cur(key, child, Some(Collection(Idents(w, d.many))),
                         <<>>, FALSE)
          [] d.card = "many" /\ d.form = "both" ->
                Cur(key, child, Some(Collection(Idents(w, d.many))),
                    IF key_included(query, executor, key)
                    THEN d.many ELSE <<>>,
                    FALSE)
          [] d.card = "many" /\ d.form = "included" ->
                IF key_included(query, executor, key)
                THEN Cur(key, child, Some(Collection(<<>>)), d.many, TRUE)
                ELSE Cur(key, child, NoneV, <<>>, FALSE)
          [] d.form = "none" -> NoBlocks(key, child)

Visit(executor, obj) ==
    [ev |-> "to_object", path |-> executor.path, kind |-> obj.kind,
     id |-> obj.id, added |-> FALSE]
Included(executor, obj, added) ==
    [ev |-> "include", path |-> executor.path, kind |-> obj.kind,
     id |-> obj.id, added |-> added]

DeflInit ==
    /\ dWorld \in Worlds
    /\ dQuery \in Queries
    /\ dStack = <<>>
    /\ dIncl = <<>>
    /\ dTodo = <<>>
    /\ dData = <<>>
    /\ dDoc = NoneV
    /\ dStatus = "idle"
    /\ dLog = <<>>

\* Resolver::resolve begins: Set::new, Executor::new
Resolve ==
    /\ dStatus = "idle"
    /\ dStatus' = "run"
    /\ dTodo' = dWorld.slice
    /\ dIncl' = <<>>
    /\ UNCHANGED <<dWorld, dQuery, dStack, dData, dDoc, dLog, notDefl>>

\* to_object is called with ref and executor: Object::new and the attributes
Call(ref, executor, stack) ==
    LET res == Resource(dWorld, ref)
        a   == RenderAttrs(dQuery, res, 1, <<>>)
        obj == Obj(res.kind, res.id, a.attrs, <<>>)
    IN  IF a.ok
        THEN /\ dStack' = Append(stack, Frame(ref, executor, obj))
             /\ dStatus' = "run"
             /\ dLog' = Append(dLog, Visit(executor, obj))
        ELSE /\ dStack' = <<>>
             /\ dStatus' = "err"
             /\ dLog' = dLog

\* resolve calls to_object for the next primary resource
ToObjectPrimary ==
    /\ dStatus = "run"
    /\ dStack = <<>>
    /\ dTodo # <<>>
    /\ Call(Head(dTodo), Executor_new, dStack)
    /\ dTodo' = Tail(dTodo)
    /\ UNCHANGED <<dWorld, dQuery, dIncl, dData, dDoc, notDefl>>

OnFrame == dStatus = "run" /\ dStack # <<>>
Decls == Resource(dWorld, Top(dStack).ref).rels

\* expand_resource_impl! @rel: the fieldset test, the key, the data
RelBegin ==
    /\ OnFrame
    /\ ~IsSome(Top(dStack).cur)
    /\ Top(dStack).pc <= Len(Decls)
    /\ LET top == Top(dStack)
           d   == Decls[top.pc]
           key == from_str(d.name)
       IN  IF ~field(dQuery, top.obj.kind, d.name)
           THEN /\ dStack' = Append(Rest(dStack), [top EXCEPT !.pc = @ + 1])
                /\ dStatus' = dStatus
           ELSE IF ~key.ok
           THEN /\ dStack' = <<>>
                /\ dStatus' = "err"
           ELSE /\ dStack' = Append(Rest(dStack),
                       [top EXCEPT !.cur = Some(BeginRel(dWorld, dQuery,
                                                    top.exec, key.key, d))])
                /\ dStatus' = dStatus
    /\ UNCHANGED <<dWorld, dQuery, dIncl, dTodo, dData, dDoc, dLog, notDefl>>

\* to_object is called for the next related resource, in the forked frame
Descend ==
    /\ OnFrame
    /\ IsSome(Top(dStack).cur)
    /\ Unwrap(Top(dStack).cur).todo # <<>>
    /\ Call(Head(Unwrap(Top(dStack).cur).todo), Unwrap(Top(dStack).cur).exec,
            dStack)
    /\ UNCHANGED <<dWorld, dQuery, dIncl, dTodo, dData, dDoc, notDefl>>

\* to_object returns Ok(obj): to resolve, or to the relationship that asked,
\* which takes the identifier if it collects them and includes the object
Return ==
    /\ OnFrame
    /\ ~IsSome(Top(dStack).cur)
    /\ Top(dStack).pc > Len(Decls)
    /\ LET obj == Top(dStack).obj
       IN  IF Len(dStack) = 1
           THEN /\ dData' = Append(dData, obj)
                /\ dStack' = <<>>
                /\ UNCHANGED <<dIncl, dLog>>
           ELSE LET parent == dStack[Len(dStack) - 1]
                    cur    == Unwrap(parent.cur)
                    r      == include(dIncl, obj)
                    data   == IF cur.collect
                              THEN Some(Collection(Append(Unwrap(cur.data).v,
                                                   IdentifierFrom(obj))))
                              ELSE cur.data
                IN  /\ dIncl' = r.set
                    /\ dLog' = Append(dLog, Included(cur.exec, obj, r.added))
                    /\ dStack' = Append(SubSeq(dStack, 1, Len(dStack) - 2),
                           [parent EXCEPT !.cur = Some([cur EXCEPT
                                              !.data = data,
                                              !.todo = Tail(@)])])
                    /\ dData' = dData
    /\ UNCHANGED <<dWorld, dQuery, dTodo, dDoc, dStatus, notDefl>>

\* expand_resource_impl! @has_one / @has_many: Relationship::new and insert
RelEnd ==
    /\ OnFrame
    /\ IsSome(Top(dStack).cur)
    /\ Unwrap(Top(dStack).cur).todo = <<>>
    /\ LET top == Top(dStack)
           cur == Unwrap(top.cur)
       IN  dStack' = Append(Rest(dStack),
               [top EXCEPT !.obj.relationships =
                               Map_insert(@, cur.key, Rel(cur.data)),
                           !.pc = @ + 1,
                           !.cur = NoneV])
    /\ UNCHANGED <<dWorld, dQuery, dIncl, dTodo, dData, dDoc, dStatus, dLog,
                   notDefl>>

\* mutant of PrimaryData: the data is a collection whatever resolve was
\* called on
PrimaryDataAlwaysCollection(many, data) == Collection(data)

\* The primary data: obj.into() for one resource, Data::Collection(data)
\* for a slice
PrimaryData(many, data) ==
    IF many THEN Collection(data) ELSE Member(Some(data[1]))

\* resolve returns the Document
ResolveDone ==
    /\ dStatus = "run"
    /\ dStack = <<>>
    /\ dTodo = <<>>
    /\ dStatus' = "done"
    /\ dDoc' = Some(OkDoc("Object", PrimaryData(dWorld.many, dData), dIncl))
    /\ UNCHANGED <<dWorld, dQuery, dStack, dIncl, dTodo, dData, dLog, notDefl>>

(***************************************************************************)
(* to_doc followed by from_doc into a schema that asks for everything.     *)
(***************************************************************************)
\* How deep the schema that asks for everything nests.
MaxNest == 4

\* A visitor that pulls every name and its value until "no more fields",
\* asks for every resource as a map and for every sequence to its end.
RECURSIVE InflateMap(_, _, _, _)
RECURSIVE InflateItems(_, _, _, _)
InflateRes(res, incl, fuel) ==
    CASE res.p \in {"key", "string"} -> [ok |-> TRUE, val |-> OStr(res.v)]
      [] res.p = "value" -> [ok |-> TRUE, val |-> OVal(res.v)]
      [] res.p = "graph" ->
            IF fuel = 0 THEN [ok |-> FALSE, val |-> OUnit]
            ELSE InflateMap(KindData(res.v), incl, <<>>, fuel - 1)
      [] res.p = "seq" ->
            IF Len(res.v) = 0 THEN [ok |-> TRUE, val |-> OUnit]
            ELSE InflateItems(res.v, incl, <<>>, fuel)
      [] res.p = "err" -> [ok |-> FALSE, val |-> OUnit]

InflateMap(data, incl, out, fuel) ==
    LET k == next_key_seed(data)
    IN  IF ~IsSome(k.key)
        THEN [ok |-> MapDocGraph_len(k.data) = 0, val |-> OMap(out)]
        ELSE LET v == next_value_seed(k.data, incl)
                 r == InflateRes(v.res, incl, fuel)
             IN  IF r.ok
                 THEN InflateMap(v.data, incl, Append(out, <<k.key, r.val>>),
                                 fuel)
                 ELSE r

InflateItems(items, incl, out, fuel) ==
    IF items = <<>> THEN [ok |-> TRUE, val |-> OSeq(out)]
    ELSE LET r == InflateRes(PGraph(Head(items).g, Head(items).via), incl,
                             fuel)
         IN  IF r.ok THEN InflateItems(Tail(items), incl, Append(out, r.val),
                                       fuel)
             ELSE r

\* from_doc with that visitor
InflateDoc(doc) ==
    IF ~doc.ok THEN [ok |-> FALSE, val |-> OUnit]
    ELSE IF doc.data.card = "Member"
    THEN IF IsSome(doc.data.v)
         THEN InflateRes(PGraph(ItemDeserializer(doc.ptype, Unwrap(doc.data.v)),
                                NoneV),
                         doc.included, MaxNest)
         ELSE [ok |-> TRUE, val |-> OVal(VNull)]
    ELSE InflateRes(PSeq([i \in 1..Len(doc.data.v) |->
                            Item(ItemDeserializer(doc.ptype, doc.data.v[i]),
                                 NoneV)]),
                    doc.included, MaxNest)

\* A resource without cycles, and a Query that includes all its paths.
RoundInit ==
    /\ DeflInit
    /\ dWorld.latest = NoneV
    /\ dWorld.fail = NoneV
    /\ dQuery = Some([fields |-> NoFields, include |-> AllIncludes])

\* from_doc on the Document to_doc returned
InflateAll ==
    /\ dStatus = "done"
    /\ gStatus = "wait"
    /\ gDoc' = Unwrap(dDoc)
    /\ LET r == InflateDoc(Unwrap(dDoc))
       IN  /\ gStatus' = IF r.ok THEN "ok" ELSE "err"
           /\ gValue' = r.val
    /\ UNCHANGED <<gStack, gErr, gFin, gSkew, deflVars, keyVars, identVars,
                   valueVars, docVars>>

(***************************************************************************)
(* The values converted.                                                   *)
(***************************************************************************)
\* How many times a value is wrapped in another array or object.
MaxValueDepth == 2

\* Names as an application writes them, and the Keys parsing makes of them.
RawNames == {<<"a">>, <<"b">>, <<"a", "B">>, <<"A", "b">>}
ParsedKeys == {from_str(r).key : r \in {x \in RawNames : from_str(x).ok}}

\* The keys of the JSON objects converted: some parse, some do not.
JsonNames == {<<"a">>, <<"b">>, <<"a", "_", "b">>, <<"-", "a">>, <<"a", ".">>}

ValueLeaves == {VNull, VBool(TRUE), VNum(1), VStr(<<"x">>)}
JsonLeaves  == {JNull, JBool(TRUE), JNum(1), JStr(<<"x">>)}

\* Arrays and objects of at most two members over Null and a String.
BaseValues ==
    LET L == {VNull, VStr(<<"x">>)}
    IN  ValueLeaves
        \cup {VArr(<<>>), VObj(<<>>)}
        \cup {VArr(<<x>>) : x \in L}
        \cup {VArr(<<x, y>>) : x \in L, y \in L}
        \cup {VObj(<< <<k, x>> >>) : k \in ParsedKeys, x \in L}
        \cup UNION {{VObj(<< <<k, x>>, <<l, y>> >>) :
                        l \in ParsedKeys \ {k}, x \in L, y \in L} :
                    k \in ParsedKeys}

BaseJsons ==
    LET L == {JNull, JStr(<<"x">>)}
    IN  JsonLeaves
        \cup {JArr(<<>>), JObj(<<>>)}
        \cup {JArr(<<x>>) : x \in L}
        \cup {JArr(<<x, y>>) : x \in L, y \in L}
        \cup {JObj(<< <<k, x>> >>) : k \in JsonNames, x \in L}
        \cup UNION {{JObj(<< <<k, x>>, <<l, y>> >>) :
                        l \in JsonNames \ {k}, x \in L, y \in L} :
                    k \in JsonNames}

WrapValues(S) ==
    {VArr(<<s>>) : s \in S}
    \cup {VArr(<<VNull, s>>) : s \in S}
    \cup {VObj(<< <<(<<"a", "-", "b">>), s>> >>) : s \in S}
    \cup {VObj(<< <<(<<"b">>), VNull>>, <<(<<"a">>), s>> >>) : s \in S}

WrapJsons(S) ==
    {JArr(<<s>>) : s \in S}
    \cup {JArr(<<JNull, s>>) : s \in S}
    \cup {JObj(<< <<(<<"a">>), s>> >>) : s \in S}
    \cup {JObj(<< <<(<<"b">>), JNull>>, <<(<<"a">>), s>> >>) : s \in S}

RECURSIVE ValuesAt(_)
ValuesAt(d) ==
    IF d = 0 THEN BaseValues
    ELSE ValuesAt(d - 1) \cup WrapValues(ValuesAt(d - 1))

RECURSIVE JsonsAt(_)
JsonsAt(d) ==
    IF d = 0 THEN BaseJsons
    ELSE JsonsAt(d - 1) \cup WrapJsons(JsonsAt(d - 1))

\* A JsonValue as the build holds it: the entries of its objects in the
\* order of its Map.
RECURSIVE JsonBuild(_, _)
JsonBuild(value, ordered) ==
    CASE value.t = "JArray" ->
            JArr([i \in 1..Len(value.v) |-> JsonBuild(value.v[i], ordered)])
      [] value.t = "JObject" ->
            JObj(JsonMapCollect(
                [i \in 1..Len(value.v) |->
                    <<value.v[i][1], JsonBuild(value.v[i][2], ordered)>>],
                ordered))
      [] OTHER -> value

ValueInputs ==
    {[as |-> "Value", v |-> x, ordered |-> o] :
        x \in ValuesAt(MaxValueDepth), o \in BOOLEAN}
    \cup {[as |-> "Json", v |-> JsonBuild(x, o), ordered |-> o] :
        x \in JsonsAt(MaxValueDepth), o \in BOOLEAN}

ValueInit ==
    /\ vIn \in ValueInputs
    /\ vOut = [done |-> FALSE]

\* from_json(to_json(v))
ToJsonFromJson ==
    /\ vIn.as = "Value"
    /\ ~vOut.done
    /\ vOut' = [done |-> TRUE, json |-> to_json(vIn.v, vIn.ordered),
                res |-> from_json(to_json(vIn.v, vIn.ordered))]
    /\ UNCHANGED <<vIn, notValue>>

\* from_json of a JsonValue, as to_value and Value::from_str call it
FromJson ==
    /\ vIn.as = "Json"
    /\ ~vOut.done
    /\ vOut' = [done |-> TRUE, json |-> vIn.v, res |-> from_json(vIn.v)]
    /\ UNCHANGED <<vIn, notValue>>

(***************************************************************************)
(* Document::is_ok and Document::is_err (doc/mod.rs).                      *)
(***************************************************************************)
\* Document::is_ok
is_ok(doc) == IF doc.ok THEN TRUE ELSE FALSE

\* Document::is_err: the arms as they are written
is_err(doc) == IF doc.ok THEN TRUE ELSE FALSE

MaxErrors == 2
ErrorObjects == {"e1", "e2"}
ObjectItems == {Article1, User9}
IdentItems  == {Id(Articles, <<"1">>), Id(Users, <<"9">>)}

DataOver(items) ==
    {Member(NoneV)} \cup {Member(Some(x)) : x \in items}
        \cup {Collection(xs) : xs \in SeqsUpTo(items, 2)}

DocUniverse ==
    Docs
      \cup {OkDoc("Object", d, i) :
               d \in DataOver(ObjectItems), i \in {<<>>, <<User9>>}}
      \cup {OkDoc("Identifier", d, i) :
               d \in DataOver(IdentItems), i \in {<<>>, <<User9>>}}
      \cup {DocErr(DocumentError(es)) : es \in SeqsUpTo(ErrorObjects, MaxErrors)}

DocInit ==
    /\ mDoc \in {Some(d) : d \in DocUniverse}
    /\ mOut = [is_ok |-> NoneV, is_err |-> NoneV]

IsOk ==
    /\ IsSome(mDoc)
    /\ ~IsSome(mOut.is_ok)
    /\ mOut' = [mOut EXCEPT !.is_ok = Some(is_ok(Unwrap(mDoc)))]
    /\ UNCHANGED <<mDoc, notDoc>>

IsErr ==
    /\ IsSome(mDoc)
    /\ ~IsSome(mOut.is_err)
    /\ mOut' = [mOut EXCEPT !.is_err = Some(is_err(Unwrap(mDoc)))]
    /\ UNCHANGED <<mDoc, notDoc>>

(***************************************************************************)
(* Specifications.                                                         *)
(***************************************************************************)
KeyIdle == kSource = <<>> /\ kPos = 1 /\ kDest = <<>> /\ kRes = "off"
IdentIdle == iA = None /\ iB = None /\ iO = None /\ iOut = [done |-> FALSE]
InflIdle ==
    /\ gDoc = NoneV
    /\ gStack = <<>>
    /\ gStatus = "off"
    /\ gValue = OUnit
    /\ gErr = <<>>
    /\ gFin = NoneV
    /\ gSkew = 0
DeflIdle ==
    /\ dWorld = NoneV
    /\ dQuery = NoneV
    /\ dStack = <<>>
    /\ dIncl = <<>>
    /\ dTodo = <<>>
    /\ dData = <<>>
    /\ dDoc = NoneV
    /\ dStatus = "off"
    /\ dLog = <<>>

ValueIdle == vIn = [as |-> "none"] /\ vOut = [done |-> FALSE]
DocIdle == mDoc = NoneV /\ mOut = [is_ok |-> NoneV, is_err |-> NoneV]
OthersIdle == ValueIdle /\ DocIdle

InitKey == KeyInit /\ IdentIdle /\ InflIdle /\ DeflIdle /\ OthersIdle
NextKey == KeyBegin \/ KeyStep \/ KeyDone
SpecKey == InitKey /\ [][NextKey]_vars

InitIdent == IdentInit /\ KeyIdle /\ InflIdle /\ DeflIdle /\ OthersIdle
NextIdent == IdentCompare
SpecIdent == InitIdent /\ [][NextIdent]_vars

InitInflate == InflInit /\ KeyIdle /\ IdentIdle /\ DeflIdle /\ OthersIdle
NextInflate ==
    \/ \E mode \in Modes : from_doc(mode)
    \/ PullKey
    \/ \E mode \in Modes : PullValue(mode)
    \/ \E mode \in Modes : PullElement(mode)
    \/ FinishObject
    \/ FinishSeq
SpecInflate == InitInflate /\ [][NextInflate]_vars
\* A decode runs on until from_doc returns: the schema's visitors are code
\* that is being executed.
SpecInflateRuns == SpecInflate /\ WF_vars(NextInflate)

InitDeflate == DeflInit /\ KeyIdle /\ IdentIdle /\ InflIdle /\ OthersIdle
NextDeflate ==
    \/ Resolve
    \/ ToObjectPrimary
    \/ RelBegin
    \/ Descend
    \/ Return
    \/ RelEnd
    \/ ResolveDone
SpecDeflate == InitDeflate /\ [][NextDeflate]_vars

InflWait ==
    /\ gDoc = NoneV
    /\ gStack = <<>>
    /\ gStatus = "wait"
    /\ gValue = OUnit
    /\ gErr = <<>>
    /\ gFin = NoneV
    /\ gSkew = 0

InitValue == ValueInit /\ KeyIdle /\ IdentIdle /\ InflIdle /\ DeflIdle /\ DocIdle
NextValue == ToJsonFromJson \/ FromJson
SpecValue == InitValue /\ [][NextValue]_vars

InitDoc == DocInit /\ KeyIdle /\ IdentIdle /\ InflIdle /\ DeflIdle /\ ValueIdle
NextDoc == IsOk \/ IsErr
SpecDoc == InitDoc /\ [][NextDoc]_vars

InitRound == RoundInit /\ KeyIdle /\ IdentIdle /\ InflWait /\ OthersIdle
NextRound ==
    \/ Resolve
    \/ ToObjectPrimary
    \/ RelBegin
    \/ Descend
    \/ Return
    \/ RelEnd
    \/ ResolveDone
    \/ InflateAll
SpecRound == InitRound /\ [][NextRound]_vars

(***************************************************************************)
(* Claims about Key::from_str, checked under SpecKey.                      *)
(***************************************************************************)
KeyFinished == kRes \in {"ok", "blank", "reserved", "start", "end"}

\* C9: Key::from_str turns camelCase, underscore-separated and
\* space-separated input into kebab-case ("someFieldName", "some_field_name"
\* and "some field name" all give "some-field-name", and no accepted key
\* keeps an upper-case letter, '_' or ' '), and it rejects every input that
\* is empty, starts with a separator, ends with a separator or contains a
\* reserved character.
C9_KeyParsing ==
    KeyFinished =>
        /\ ( \/ kSource = <<>>
             \/ IsSep(kSource[1])
             \/ IsSep(kSource[Len(kSource)])
             \/ \E i \in 1..Len(kSource) : IsReserved(kSource[i]) ) => kRes # "ok"
        /\ kSource \in {SomeFieldNameCamel, SomeFieldNameSnake, SomeFieldNameSpace}
               => kRes = "ok" /\ kDest = SomeFieldNameKebab
        /\ kRes = "ok" =>
               \A i \in 1..Len(kDest) : ~IsUpper(kDest[i]) /\ kDest[i] \notin {"_", " "}

C9_Witness ==
    /\ kRes = "ok"
    /\ kSource = SomeFieldNameCamel
    /\ kDest = SomeFieldNameKebab

\* normal form of a key: no upper-case letter, no '_' and no ' ', no two
\* adjacent '-', and no '-' at either end
NormalForm(key) ==
    /\ \A i \in 1..Len(key) : ~IsUpper(key[i]) /\ key[i] \notin {"_", " "}
    /\ \A i \in 1..(Len(key) - 1) : ~(key[i] = "-" /\ key[i + 1] = "-")
    /\ key # <<>> => key[1] # "-" /\ key[Len(key)] # "-"

\* C26: every Key that Key::from_str returns is in normal form, and parsing
\* the text of that Key again returns the same Key.
C26_KeyNormalForm ==
    kRes = "ok" =>
        /\ NormalForm(kDest)
        /\ from_str(kDest).ok
        /\ from_str(kDest).key = kDest

\* What holds of every returned Key: all of the normal form but the first
\* character, which is '-' exactly when the source starts with an upper-case
\* letter; a Key of a source that does not start with one parses to itself.
KeyNormalFormButStart ==
    kRes = "ok" =>
        /\ NormalForm(IF kDest[1] = "-" THEN Tail(kDest) ELSE kDest)
        /\ kDest[Len(kDest)] # "-"
        /\ (kDest[1] = "-") = IsUpper(kSource[1])
        /\ ~IsUpper(kSource[1]) =>
              from_str(kDest).ok /\ from_str(kDest).key = kDest

(***************************************************************************)
(* Claims about Identifier identity, checked under SpecIdent.              *)
(***************************************************************************)
\* C10: two Identifiers are equal exactly when their kind and id are equal,
\* whatever their meta; equal Identifiers feed the same values to the hasher;
\* an Identifier equals an Object exactly when their kind and id are equal.
C10_IdentifierIdentity ==
    iOut.done =>
        /\ iOut.eq = (iA.kind = iB.kind /\ iA.id = iB.id)
        /\ iOut.eq => iOut.hashA = iOut.hashB
        /\ iOut.eqObj = (iA.kind = iO.kind /\ iA.id = iO.id)

C10_Witness ==
    /\ iOut.done
    /\ iOut.eq
    /\ iA.meta # iB.meta
    /\ iOut.hashA = iOut.hashB
    /\ iOut.eqObj

(***************************************************************************)
(* Claims about the inflate cursors, checked under SpecInflate.            *)
(***************************************************************************)
Names(m) == [i \in 1..Len(m) |-> m[i][1]]
IsPrefix(a, b) == Len(a) <= Len(b) /\ a = SubSeq(b, 1, Len(a))

GraphAttrs(g) == IF IsSome(g.attributes) THEN Unwrap(g.attributes) ELSE <<>>
GraphRels(g) ==
    IF IsSome(g.relationships) THEN Unwrap(g.relationships).map ELSE <<>>
WithData(rels) == SelectSeq(rels, LAMBDA e : e[2].data # NoneV)

\* The fields of a resource: type, id when it has one, its attributes, its
\* relationships that carry data.
ProducedNames(g) ==
    <<K_type>> \o (IF IsSome(g.id) THEN <<K_id>> ELSE <<>>)
        \o Names(GraphAttrs(g)) \o Names(WithData(GraphRels(g)))

\* The same with "id" in every case.
NamesWithId(g) ==
    <<K_type, K_id>> \o Names(GraphAttrs(g)) \o Names(WithData(GraphRels(g)))

\* The object cursors of a state: those in use and the one that just ended.
MapFrames ==
    {gStack[i] : i \in {j \in 1..Len(gStack) : gStack[j].f = "map"}}
        \cup (IF IsSome(gFin) THEN {Unwrap(gFin)} ELSE {})

InTurn(F) == F.alt /\ ~IsSome(F.pending)

\* Exact consumption of a schema that pulls each field's value after its
\* name: when it returns from visit_object, the decode fails with invalid
\* length if it consumed fewer than the produced fields, and succeeds with
\* exactly the produced fields, in order, if it consumed them all.
C3_ExactConsumption ==
    IsSome(gFin) /\ InTurn(Unwrap(gFin)) =>
        LET F == Unwrap(gFin)
        IN  /\ F.ok = (Len(F.out) = Len(ProducedNames(F.src)))
            /\ F.ok => Names(F.out) = [i \in 1..Len(F.out) |->
                                          Some(ProducedNames(F.src)[i])]
            /\ ~F.ok => gStatus = "err" /\ gErr = <<"invalid_length">>

\* C3: when a schema returns from visit_object, the decode succeeds exactly
\* when every produced field (type, id, every attribute, every relationship
\* with data present) has been consumed, name and value; no produced field is
\* dropped by a decode that succeeds.
C3_AsStated ==
    IsSome(gFin) =>
        Unwrap(gFin).ok =
            (Len(Unwrap(gFin).out) = Len(ProducedNames(Unwrap(gFin).src)))

C3_Witness ==
    /\ IsSome(gFin)
    /\ InTurn(Unwrap(gFin))
    /\ Unwrap(gFin).ok
    /\ Len(Unwrap(gFin).out) = 4
    /\ gStatus = "ok"

C3_WitnessEarly ==
    /\ IsSome(gFin)
    /\ InTurn(Unwrap(gFin))
    /\ Len(Unwrap(gFin).out) = 3
    /\ gErr = <<"invalid_length">>

NotIncluded(id) ==
    \A i \in 1..Len(gDoc.included) :
        ~(gDoc.included[i].kind = id.kind /\ gDoc.included[i].id = id.id)

\* C6: a cursor made for a relationship identifier that no included Object
\* matches produces type and id and nothing else: it has no attributes and
\* no relationships, hands out no other name, and a schema that consumes it
\* gets exactly the identifier's kind and id.
C6_StubFallback ==
    \A F \in MapFrames :
        IsSome(F.via) /\ NotIncluded(Unwrap(F.via)) =>
            /\ F.src = [kind |-> Unwrap(F.via).kind,
                        id |-> Some(Unwrap(F.via).id),
                        attributes |-> NoneV, relationships |-> NoneV]
            /\ \A i \in 1..Len(F.keys) : F.keys[i] \in {K_type, K_id}
            /\ Len(F.out) <= 2
            /\ F.ended /\ F.alt =>
                   F.out = << <<Some(K_type), OStr(Unwrap(F.via).kind)>>,
                              <<Some(K_id), OStr(Unwrap(F.via).id)>> >>

C6_Witness ==
    /\ gDoc = StubDoc
    /\ IsSome(gFin)
    /\ Unwrap(gFin).via = Some(Id(Users, <<"9">>))
    /\ Unwrap(gFin).ok
    /\ Unwrap(gFin).out = << <<Some(K_type), OStr(Users)>>,
                             <<Some(K_id), OStr(<<"9">>)>> >>

FirstIncluded(id) ==
    gDoc.included[SeqMin({i \in 1..Len(gDoc.included) :
        gDoc.included[i].kind = id.kind /\ gDoc.included[i].id = id.id})]

ScenarioValue ==
    OMap(<< <<Some(K_type), OStr(Articles)>>,
            <<Some(K_id), OStr(<<"1">>)>>,
            <<Some(K_title), OVal(VStr(<<"T">>))>>,
            <<Some(K_author),
              OMap(<< <<Some(K_type), OStr(Users)>>,
                      <<Some(K_id), OStr(<<"9">>)>>,
                      <<Some(K_name), OVal(VStr(<<"A">>))>> >>)>> >>)

\* C7: a cursor made for a relationship identifier that an included Object
\* matches walks that Object's attributes and relationships; the value of a
\* to-one relationship whose data is Member(None) is null; the scenario
\* document (article 1 with author users/9, users/9 included with name "A")
\* inflates to title "T" and author {name "A"}, next to their type and id.
C7_NestedResolution ==
    /\ \A F \in MapFrames :
          /\ IsSome(F.via) /\ ~NotIncluded(Unwrap(F.via)) =>
                 LET o == FirstIncluded(Unwrap(F.via))
                 IN  /\ F.src.kind = o.kind
                     /\ F.src.id = Some(o.id)
                     /\ F.src.attributes = Some(o.attributes)
                     /\ GraphRels(F.src) = o.relationships
          /\ \A i \in 1..Len(F.out) :
                 \A j \in 1..Len(GraphRels(F.src)) :
                     /\ F.out[i][1] = Some(GraphRels(F.src)[j][1])
                     /\ GraphRels(F.src)[j][2].data = Some(Member(NoneV))
                     => F.out[i][2] = OVal(VNull)
    /\ ( /\ gDoc = ScenarioDoc
         /\ gStatus = "ok"
         /\ gValue.t = "Map"
         /\ Len(gValue.v) = 4
         /\ gValue.v[4][2].t = "Map"
         /\ Len(gValue.v[4][2].v) = 3
         /\ gSkew = 0 ) => gValue = ScenarioValue

C7_Witness ==
    /\ gDoc = ScenarioDoc
    /\ gStatus = "ok"
    /\ gValue = ScenarioValue

C7_WitnessNull ==
    /\ gDoc = NullDoc
    /\ gStatus = "ok"
    /\ gValue = OMap(<< <<Some(K_type), OStr(Articles)>>,
                        <<Some(K_id), OStr(<<"1">>)>>,
                        <<Some(K_author), OVal(VNull)>> >>)

\* C8 (as amended): the names a cursor hands out to a schema that pulls each
\* value after its name are, in this order, "type", "id" when the resource
\* has an id, the attribute keys in map order, the keys of the relationships
\* whose data is present in map order, and then "no more fields"; a
\* relationship whose data is None is never handed out and is not counted.
C8_FieldOrder ==
    \A F \in MapFrames :
        /\ F.alt =>
              /\ IsPrefix(F.keys, ProducedNames(F.src))
              /\ F.ended => F.keys = ProducedNames(F.src)
        /\ \A i \in 1..Len(F.keys) :
              \A j \in 1..Len(GraphRels(F.src)) :
                  GraphRels(F.src)[j][2].data = NoneV
                      => F.keys[i] # GraphRels(F.src)[j][1]
        /\ IsSome(F.src.relationships) =>
              Unwrap(F.src.relationships).len = Len(WithData(GraphRels(F.src)))

\* C8 (as stated): "id" is the second name in every case.
C8_AsStated ==
    \A F \in MapFrames :
        F.alt =>
            /\ IsPrefix(F.keys, NamesWithId(F.src))
            /\ F.ended => F.keys = NamesWithId(F.src)

C8_Witness ==
    \E F \in MapFrames :
        /\ F.alt
        /\ F.ended
        /\ GraphRels(F.src) = <<NoData(K_editor), ToNull(K_author)>>
        /\ F.keys = <<K_type, K_id, K_author>>

\* C18: from_doc on a Document::Err inflates nothing, whatever the target
\* asks for: it returns the error that carries the document's errors, no
\* cursor is made and no value delivered; on a Document::Ok whose data is
\* Member(None) the target is decoded from null.
C18_ErrDocument ==
    /\ (~gDoc.ok /\ gStatus # "idle") =>
          /\ gStatus = "err"
          /\ gErr = <<"document">> \o gDoc.error.errors
          /\ gStack = <<>>
          /\ gValue = OUnit
    /\ (gDoc.ok /\ gStatus # "idle") =>
          (gDoc.data = Member(NoneV) =>
              gStatus = "ok" /\ gValue = OVal(VNull) /\ gStack = <<>>)

\* A document with two errors was handed to from_doc.
C18_Witness ==
    /\ gDoc = ErrDoc2
    /\ gStatus = "err"
    /\ gErr = <<"document", "e1", "e2">>

\* A document without primary data was handed to from_doc.
C18_WitnessNull ==
    /\ gDoc = NoneDoc
    /\ gStatus = "ok"
    /\ gValue = OVal(VNull)

\* C19: when the visitor of a sequence cursor returns having pulled fewer
\* items than the cursor held, the decode fails with an invalid-length
\* error; what it returns is passed on only when it pulled every item.
C19_SeqExactConsumption ==
    [][FinishSeq =>
          LET top == Top(gStack)
          IN  /\ Len(top.out) + Len(top.iter) = top.len
              /\ Len(top.out) < top.len =>
                    gStatus' = "err" /\ gErr' = <<"invalid_length">>
              /\ Len(top.out) = top.len => gStatus' # "err"
              /\ gStatus' # "err" => Len(top.out) = top.len]_vars

\* The visitor of a primary collection of two returned after one item, no
\* object visitor having returned before.
C19_Witness ==
    /\ gDoc = ListDoc
    /\ gStatus = "err"
    /\ gErr = <<"invalid_length">>
    /\ gFin = NoneV

\* What a finished or running object visitor was given for the relationships
\* of its Object whose data is a Collection: <<length of the data, value>>.
ToManyGiven(F) ==
    {<<Len(Unwrap(GraphRels(F.src)[j][2].data).v), F.out[i][2]>> :
        <<i, j>> \in
            {p \in (1..Len(F.out)) \X (1..Len(GraphRels(F.src))) :
                /\ F.out[p[1]][1] = Some(GraphRels(F.src)[p[2]][1])
                /\ IsSome(GraphRels(F.src)[p[2]][2].data)
                /\ Unwrap(GraphRels(F.src)[p[2]][2].data).card = "Collection"}}

\* The collections a decode has presented so far, each with its length.
CollectionsGiven ==
    UNION {ToManyGiven(F) : F \in MapFrames}
        \cup (IF gDoc.ok /\ gStatus = "ok" /\ gDoc.data.card = "Collection"
              THEN {<<Len(gDoc.data.v), gValue>>} ELSE {})

\* C20: a to-many relationship, or a Collection of primary data, of n items
\* is presented to the schema as a sequence of exactly n items, for every
\* n >= 0: an empty collection is presented as a sequence of length 0.
C20_SequencePresentation ==
    \A c \in CollectionsGiven : c[2].t = "Seq" /\ Len(c[2].v) = c[1]

\* A collection that is not empty is presented as a sequence of its length.
NonEmptySequencePresentation ==
    \A c \in CollectionsGiven :
        c[1] > 0 => c[2].t = "Seq" /\ Len(c[2].v) = c[1]

\* An empty collection is presented as a unit.
EmptyPresentedAsUnit ==
    \A c \in CollectionsGiven : c[1] = 0 => c[2] = OUnit

\* What the innermost visitor was given last.
LastGiven(stack) ==
    LET out == Top(stack).out
    IN  IF Top(stack).f = "map" THEN out[Len(out)][2] ELSE out[Len(out)]

\* The outcome of a request for a string made of the cursor g by a visitor
\* on a stack of depth: no cursor is added, the visitor is given the id, and
\* without an id the decode ends in an invalid-type error.
StringOutcome(g, depth) ==
    /\ Len(gStack') <= depth
    /\ IsSome(g.id) =>
          /\ gStatus' # "err"
          /\ Len(gStack') = depth
          /\ IF depth = 0 THEN gStatus' = "ok" /\ gValue' = OStr(Unwrap(g.id))
             ELSE LastGiven(gStack') = OStr(Unwrap(g.id))
    /\ ~IsSome(g.id) => gStatus' = "err" /\ gErr' = <<"invalid_type">>

\* C21: a schema that asks a resource cursor for a string is given the
\* resource's id at once, no field of the resource being walked; when the
\* resource has no id (a NewObject without one) the request fails with an
\* invalid-type error.  This holds for the primary data, for the value of a
\* to-one relationship and for the items of a collection.
C21_StringIsId ==
    [][/\ ( /\ from_doc("string")
            /\ gDoc.ok
            /\ gDoc.data.card = "Member"
            /\ IsSome(gDoc.data.v) ) =>
              StringOutcome(ItemDeserializer(gDoc.ptype, Unwrap(gDoc.data.v)),
                            0)
       /\ ( /\ PullValue("string")
            /\ next_value_seed(Top(gStack).data, gDoc.included).res.p =
                   "graph" ) =>
              StringOutcome(
                  next_value_seed(Top(gStack).data, gDoc.included).res.v,
                  Len(gStack))
       /\ (PullElement("string") /\ Top(gStack).iter # <<>>) =>
              StringOutcome(Head(Top(gStack).iter).g, Len(gStack))]_vars

\* A new article without an id was asked for a string.
C21_Witness ==
    /\ gDoc = NewDoc
    /\ gStatus = "err"
    /\ gErr = <<"invalid_type">>

\* The scenario's article was asked for a string.
C21_WitnessId ==
    /\ gDoc = ScenarioDoc
    /\ gStatus = "ok"
    /\ gValue = OStr(<<"1">>)

\* the cursor of an identifier, answered from the whole included set of the
\* document as it was handed to from_doc
AnsweredFromDocument(g, id) ==
    IF NotIncluded(id)
    THEN g = [kind |-> id.kind, id |-> Some(id.id),
              attributes |-> NoneV, relationships |-> NoneV]
    ELSE /\ g.kind = FirstIncluded(id).kind
         /\ g.id = Some(FirstIncluded(id).id)
         /\ g.attributes = Some(FirstIncluded(id).attributes)
         /\ IsSome(g.relationships)
         /\ Unwrap(g.relationships).map = FirstIncluded(id).relationships

LookupsAnswered ==
    /\ \A F \in MapFrames :
          IsSome(F.via) => AnsweredFromDocument(F.src, Unwrap(F.via))
    /\ \A i \in 1..Len(gStack) :
          gStack[i].f = "seq" =>
              \A j \in 1..Len(gStack[i].iter) :
                  IsSome(gStack[i].iter[j].via) =>
                      AnsweredFromDocument(gStack[i].iter[j].g,
                                           Unwrap(gStack[i].iter[j].via))

\* C23: no step of the inflate walk changes the document's included set,
\* whether the decode ends in a value or in an error, and every cursor made
\* for a relationship identifier, however late in the walk, is the answer of
\* the whole set: the first included Object of that kind and id, else the
\* stub.
C23_IncludedReadOnly ==
    /\ [][gDoc' = gDoc]_vars
    /\ [](gStatus # "idle" => LookupsAnswered)

\* In the cycle document the second lookup, made while the cursor of the
\* first is still open, finds article 1 in the set.
C23_Witness ==
    /\ gDoc = CycleDoc
    /\ Len(gStack) = 3
    /\ gStack[2].f = "map" /\ gStack[2].via = Some(Id(Users, <<"9">>))
    /\ IsSome(gStack[2].src.relationships)
    /\ gStack[3].f = "map" /\ gStack[3].via = Some(Id(Articles, <<"1">>))
    /\ gStack[3].src.attributes = Some(Article1.attributes)

\* A decode that ended in an error left the document as it was.
C23_WitnessFailed ==
    /\ gDoc = ManyDoc
    /\ gStatus = "err"
    /\ IsSome(gFin)
    /\ Unwrap(gFin).via = Some(Id(Comments, <<"5">>))

\* the top cursor is in the Attributes or Relationships state and no name
\* was handed out since the last value was
NothingPending ==
    /\ Top(gStack).data.st \in {"Attributes", "Relationships"}
    /\ ~IsSome(Top(gStack).pending)

\* C25: once a name pull of an object cursor answered "no more fields",
\* every later name pull answers the same and hands out no name, and every
\* later value pull fails; and a value pull made in the Attributes or
\* Relationships state with no name pulled since the last value fails with
\* the missing-value error and hands no value to the schema.
C25_DoneAbsorbing ==
    [][/\ (PullKey /\ Top(gStack).ended) =>
             /\ gStatus' = "run"
             /\ Top(gStack').ended
             /\ Top(gStack').data = DoneData
             /\ Top(gStack').keys = Top(gStack).keys
             /\ Top(gStack').out = Top(gStack).out
       /\ \A mode \in Modes :
             /\ (PullValue(mode) /\ Top(gStack).ended) =>
                   /\ gStatus' = "err"
                   /\ gErr' = <<"premature done is missing">>
             /\ (PullValue(mode) /\ NothingPending) =>
                   /\ gStatus' = "err"
                   /\ gErr' \in {<<"attribute value is missing">>,
                                 <<"relationship value is missing">>}]_vars

\* A value was pulled after the name pull that answered "no more fields".
C25_Witness ==
    /\ gDoc = ScenarioDoc
    /\ gStatus = "err"
    /\ gErr = <<"premature done is missing">>

\* A second value was pulled for one name.
C25_WitnessMissing ==
    /\ gDoc = ScenarioDoc
    /\ gStatus = "err"
    /\ gErr = <<"attribute value is missing">>

\* how many values of the i-th cursor of the stack have been pulled: those
\* delivered to its visitor and the one a nested cursor is open for
ValuesPulled(i) ==
    Len(gStack[i].out) + (IF i < Len(gStack) THEN 1 ELSE 0)

\* C28: at every point of a decode, MapDocGraph::len of an object cursor is
\* the number of produced fields whose value has not yet been pulled: it is
\* never negative and it is zero only once the value of the last produced
\* field has been pulled.
C28_RemainingCount ==
    \A i \in 1..Len(gStack) :
        gStack[i].f = "map" /\ gStack[i].alt =>
            /\ MapDocGraph_len(gStack[i].data) >= 0
            /\ MapDocGraph_len(gStack[i].data)
                  = Len(ProducedNames(gStack[i].src)) - ValuesPulled(i)

\* What the count is: once type and id are behind, the number of produced
\* fields whose name has not yet been handed out, never negative.
RemainingCountsNames ==
    \A i \in 1..Len(gStack) :
        gStack[i].f = "map" =>
            /\ MapDocGraph_len(gStack[i].data) >= 0
            /\ ( /\ gStack[i].alt
                 /\ gStack[i].data.st \in {"Attributes", "Relationships",
                                           "Done"} ) =>
                  MapDocGraph_len(gStack[i].data)
                      = Len(ProducedNames(gStack[i].src)) - Len(gStack[i].keys)

\* the relationship of cursor F whose name was handed out last
PendingRel(F) ==
    {GraphRels(F.src)[j][2] :
        j \in {k \in 1..Len(GraphRels(F.src)) :
                  Some(GraphRels(F.src)[k][1]) = F.pending}}

\* A step adds a cursor to the stack only as the answer to a pull: the
\* cursor of the primary data at from_doc, the cursor of a relationship when
\* the value of that relationship is pulled, the cursor of an item when that
\* item is pulled; one cursor a step.
NestedOnPull ==
    Len(gStack') > Len(gStack) =>
        /\ Len(gStack') = Len(gStack) + 1
        /\ gStack = <<>> => gStatus = "idle"
        /\ gStack # <<>> =>
              LET below == Top(gStack)
                  new   == Top(gStack')
              IN  /\ below.f = "map" =>
                        /\ IsSome(below.pending)
                        /\ gStack'[Len(gStack)].keys = below.keys
                        /\ \E rel \in PendingRel(below) :
                              /\ IsSome(rel.data)
                              /\ new.f = "map" =>
                                    Unwrap(rel.data) = Member(new.via)
                              /\ new.f = "seq" =>
                                    /\ Unwrap(rel.data).card = "Collection"
                                    /\ Len(new.iter) = Len(Unwrap(rel.data).v)
                  /\ below.f = "seq" =>
                        /\ below.iter # <<>>
                        /\ new.f = "map"
                        /\ new.via = Head(below.iter).via
                        /\ new.src = Head(below.iter).g

\* Every cursor below the top one waits for the value of a relationship, or
\* of an item, that its visitor has pulled.
OpenUnderPulled ==
    \A i \in 1..(Len(gStack) - 1) :
        gStack[i].f = "map" =>
            /\ IsSome(gStack[i].pending)
            /\ PendingRel(gStack[i]) # {}

\* C29: inflate does not follow relationships on its own: a nested cursor is
\* made only when the schema pulls the value of that relationship, so the
\* cursors open at once are as many as the schema nests, and every decode,
\* of a document whose resources refer to each other in a cycle too, comes to
\* its end.
C29_LazyDescent ==
    /\ [][NestedOnPull]_vars
    /\ [](OpenUnderPulled /\ Len(gStack) <= MaxDepth)
    /\ <>(gStatus \in {"ok", "err"})

\* The schema followed the cycle of the cycle document three cursors deep:
\* article 1, its author, the author's latest article.
C29_Witness ==
    /\ gDoc = CycleDoc
    /\ Len(gStack) = 3
    /\ \A i \in 1..Len(gStack) : gStack[i].f = "map"
    /\ gStack[1].src.id = Some(<<"1">>)
    /\ gStack[Len(gStack)].via = Some(Id(Articles, <<"1">>))

\* The decode of the cycle document came to its end with a value.
C29_WitnessEnd ==
    /\ gDoc = CycleDoc
    /\ gStatus = "ok"
    /\ gValue.t = "Map"
    /\ Len(gValue.v) = 4

(***************************************************************************)
(* Claims about deflate, checked under SpecDeflate.                        *)
(***************************************************************************)
\* C1: whatever include calls a walk has made so far, from the root frame or
\* from forked frames, the included set holds at most one Object for each
\* (kind, id); so does the included set of the Document returned.
C1_IncludedUnique ==
    /\ \A i, j \in 1..Len(dIncl) :
          (dIncl[i].kind = dIncl[j].kind /\ dIncl[i].id = dIncl[j].id)
              => i = j
    /\ IsSome(dDoc) =>
          \A i, j \in 1..Len(Unwrap(dDoc).included) :
              ( /\ Unwrap(dDoc).included[i].kind = Unwrap(dDoc).included[j].kind
                /\ Unwrap(dDoc).included[i].id = Unwrap(dDoc).included[j].id )
                  => i = j

\* an Object was included a second time, from another frame, and the walk
\* went on to the end
C1_Witness ==
    /\ dStatus = "done"
    /\ \E i, j \in 1..Len(dLog) :
          /\ i < j
          /\ dLog[i].ev = "include" /\ dLog[j].ev = "include"
          /\ dLog[i].kind = dLog[j].kind /\ dLog[i].id = dLog[j].id
          /\ dLog[i].path # dLog[j].path
          /\ ~dLog[j].added
    /\ Len(Unwrap(dDoc).included) >= 3

\* The Objects rendered and kept: the primary data and the included set.
Rendered == {dData[i] : i \in 1..Len(dData)} \cup {dIncl[i] : i \in 1..Len(dIncl)}

\* The fields a kind declares, under the names they are emitted with.
DeclOf(kind) ==
    CASE kind = Articles -> Resource(dWorld, "a1")
      [] kind = Users -> Resource(dWorld, "u9")
      [] kind = Comments -> Resource(dWorld, "c5")
AttrNames(kind) ==
    {from_str(DeclOf(kind).attrs[i][1]).key : i \in 1..Len(DeclOf(kind).attrs)}
RelNames(kind) ==
    {from_str(DeclOf(kind).rels[i].name).key : i \in 1..Len(DeclOf(kind).rels)}

Allowed(kind, name) ==
    \/ ~IsSome(dQuery)
    \/ kind \notin DOMAIN Unwrap(dQuery).fields
    \/ name \in Unwrap(dQuery).fields[kind]

KeySet(map) == {map[i][1] : i \in 1..Len(map)}

\* C4: in every Object of kind K rendered under Query Q, an attribute or
\* relationship named N is present exactly when Q has no fieldset for K, or
\* there is no Query, or Q.fields[K] contains N.
C4_FieldInclusion ==
    \A o \in Rendered :
        /\ \A n \in AttrNames(o.kind) :
              (n \in KeySet(o.attributes)) = Allowed(o.kind, n)
        /\ \A n \in RelNames(o.kind) :
              (n \in KeySet(o.relationships)) = Allowed(o.kind, n)

\* The resources reached from ref along the relationships a path names.
RelTargets(d) ==
    IF d.form = "none" THEN {}
    ELSE IF d.card = "one" THEN {d.one[i] : i \in 1..Len(d.one)}
    ELSE {d.many[i] : i \in 1..Len(d.many)}
Step(ref, key) ==
    UNION {RelTargets(Resource(dWorld, ref).rels[i]) :
              i \in {j \in 1..Len(Resource(dWorld, ref).rels) :
                        from_str(Resource(dWorld, ref).rels[j].name).key = key}}
RECURSIVE PathTargets(_, _)
PathTargets(ref, path) ==
    IF path = <<>> THEN {ref}
    ELSE UNION {PathTargets(t, Tail(path)) : t \in Step(ref, Head(path))}

Primaries == {dWorld.slice[i] : i \in 1..Len(dWorld.slice)}
Reachable ==
    IF IsSome(dQuery)
    THEN UNION {PathTargets(p, path) :
                   p \in Primaries, path \in Unwrap(dQuery).include}
    ELSE {}
IsObjectOf(o, ref) ==
    o.kind = Resource(dWorld, ref).kind /\ o.id = Resource(dWorld, ref).id

NoFieldsets == IsSome(dQuery) => Unwrap(dQuery).fields = NoFields

Walked(ref) ==
    {i \in 1..Len(Resource(dWorld, ref).rels) :
        field(dQuery, Resource(dWorld, ref).kind,
              Resource(dWorld, ref).rels[i].name)}
WalkStep(ref, key) ==
    UNION {RelTargets(Resource(dWorld, ref).rels[i]) :
              i \in {j \in Walked(ref) :
                        from_str(Resource(dWorld, ref).rels[j].name).key = key}}

\* The resources reached from ref along the rest of a path whose every
\* prefix is in Q.include.
RECURSIVE WalkTargets(_, _, _)
WalkTargets(ref, prefix, path) ==
    IF path = <<>> THEN {ref}
    ELSE IF Append(prefix, Head(path)) \notin Unwrap(dQuery).include THEN {}
    ELSE UNION {WalkTargets(t, Append(prefix, Head(path)), Tail(path)) :
                   t \in WalkStep(ref, Head(path))}
WalkReachable ==
    IF IsSome(dQuery)
    THEN UNION {WalkTargets(p, <<>>, path) :
                   p \in Primaries, path \in Unwrap(dQuery).include}
    ELSE {}

DeclByKey(ref, key) ==
    CHOOSE d \in {Resource(dWorld, ref).rels[i] :
                     i \in 1..Len(Resource(dWorld, ref).rels)} :
        from_str(d.name).key = key

WalkSet == Primaries \cup WalkReachable

\* A step of to_object on ref that returns an error under the Query: a
\* rendered attribute whose name or value does not convert, or a rendered
\* relationship whose name does not parse.
FailsAt(ref) ==
    LET res == Resource(dWorld, ref)
    IN  \/ \E i \in 1..Len(res.attrs) :
              /\ field(dQuery, res.kind, res.attrs[i][1])
              /\ ~from_str(res.attrs[i][1]).ok \/ ~from_json(res.attrs[i][2]).ok
        \/ \E i \in 1..Len(res.rels) :
              /\ field(dQuery, res.kind, res.rels[i].name)
              /\ ~from_str(res.rels[i].name).ok

C13_WitnessCollection ==
    /\ dStatus = "err"
    /\ dWorld.fail = Some(<<"a2", "attr">>)
    /\ Len(dData) = 1
    /\ dDoc = NoneV

\* The Executors alive while stack is running, outermost first: the root
\* that resolve made and every child forked from the one before it.
LiveExecutors(stack) ==
    IF stack = <<>> THEN <<>>
    ELSE LET n == Len(stack)
             m == IF IsSome(stack[n].cur) THEN n ELSE n - 1
         IN  <<stack[1].exec>> \o [i \in 1..m |-> Unwrap(stack[i].cur).exec]

IncludeLogged ==
    /\ Len(dLog') = Len(dLog) + 1
    /\ dLog'[Len(dLog')].ev = "include"

\* Every to_object call in progress was given the child its caller forked,
\* and every live Executor was forked from the one before it.
ForkChain ==
    /\ \A i \in 1..(Len(dStack) - 1) :
          /\ IsSome(dStack[i].cur)
          /\ dStack[i + 1].exec = Unwrap(dStack[i].cur).exec
    /\ LET live == LiveExecutors(dStack)
       IN  \A i \in 1..(Len(live) - 1) :
              /\ Len(live[i + 1].path) = Len(live[i].path) + 1
              /\ IsPrefix(live[i].path, live[i + 1].path)

\* Each step writes to the included set through the innermost live Executor
\* only, and leaves alone every to_object call that still waits for a callee.
WriterStep ==
    /\ dIncl' # dIncl => dStatus' = "run" /\ (dStack = <<>> \/ IncludeLogged)
    /\ IncludeLogged =>
          LET live == LiveExecutors(dStack')
          IN  /\ live # <<>>
              /\ dLog'[Len(dLog')].path = live[Len(live)].path
              /\ \A i \in 1..(Len(live) - 1) :
                    live[i].path # dLog'[Len(dLog')].path
    /\ \A i \in 1..(Len(dStack) - 1) :
          Len(dStack') > i => dStack'[i] = dStack[i]

\* C14: during a deflate walk the included set is written through one
\* Executor at a time, the innermost one alive: an Executor that has a forked
\* child performs no include, and the to_object call that holds it goes on
\* only after the call that was given the child has returned.
C14_SingleWriter == [](ForkChain) /\ [][WriterStep]_vars

\* A comment's author was included through the Executor forked twice while
\* the article's and the comment's calls were on the stack.
C14_Witness ==
    /\ Len(dStack) = 2
    /\ dLog # <<>>
    /\ dLog[Len(dLog)].ev = "include"
    /\ Len(dLog[Len(dLog)].path) = 2
    /\ dLog[Len(dLog)].added

\* C15: resolve on one resource returns a Document whose data is
\* Member(Some(object)) for that resource; resolve on a slice of n resources
\* returns Collection with exactly n Objects, the i-th for the i-th
\* resource, for every n from 0 on; and the one included set of the Document
\* holds what every item reached, each resource once.
C15_PrimaryCardinality ==
    dStatus = "done" =>
        LET doc == Unwrap(dDoc)
        IN  /\ ~dWorld.many =>
                  /\ doc.data.card = "Member"
                  /\ IsSome(doc.data.v)
                  /\ IsObjectOf(Unwrap(doc.data.v), "a1")
            /\ dWorld.many =>
                  /\ doc.data.card = "Collection"
                  /\ Len(doc.data.v) = Len(dWorld.slice)
                  /\ \A i \in 1..Len(dWorld.slice) :
                        IsObjectOf(doc.data.v[i], dWorld.slice[i])
            /\ \A t \in WalkReachable :
                  Cardinality({i \in 1..Len(doc.included) :
                                  IsObjectOf(doc.included[i], t)}) = 1

\* A slice of two articles with the same author, included once.
C15_Witness ==
    /\ dStatus = "done"
    /\ dWorld.many
    /\ Len(dWorld.slice) = 2
    /\ dWorld.author = Some("u9")
    /\ Unwrap(dDoc).data = Collection(dData)
    /\ Len(dData) = 2
    /\ Len(Unwrap(dDoc).included) = 1
    /\ IsObjectOf(Unwrap(dDoc).included[1], "u9")

\* An empty slice gives an empty Collection.
C15_WitnessEmpty ==
    /\ dStatus = "done"
    /\ dWorld.slice = <<>>
    /\ Unwrap(dDoc).data = Collection(<<>>)

\* The relationship named key of a rendered Object, if it has one.
RelOf(o, key) ==
    {o.relationships[n][2] :
        n \in {m \in 1..Len(o.relationships) : o.relationships[m][1] = key}}

C22_IncludeIdempotent ==
    [][IncludeLogged =>
          LET e    == dLog'[Len(dLog')]
              held == \E i \in 1..Len(dIncl) :
                         dIncl[i].kind = e.kind /\ dIncl[i].id = e.id
          IN  /\ dStatus' = "run"
              /\ held => ~e.added /\ dIncl' = dIncl
              /\ ~held =>
                    /\ e.added
                    /\ Len(dIncl') = Len(dIncl) + 1
                    /\ SubSeq(dIncl', 1, Len(dIncl)) = dIncl
                    /\ dIncl'[Len(dIncl')].kind = e.kind
                    /\ dIncl'[Len(dIncl')].id = e.id]_vars

\* The author of the second article was included again and the set of one
\* stayed as it was.
C22_Witness ==
    /\ dLog # <<>>
    /\ dLog[Len(dLog)].ev = "include"
    /\ ~dLog[Len(dLog)].added
    /\ Len(dIncl) = 1
    /\ Len(dData) = 1

\* a step in which the to_object call on top of the stack forks its Executor
\* for the relationship it is at
Forked ==
    /\ dStack # <<>>
    /\ ~IsSome(Top(dStack).cur)
    /\ Len(dStack') = Len(dStack)
    /\ IsSome(Top(dStack').cur)

\* C24: the Executor of a primary resource's to_object call has the empty
\* path; a fork for a relationship gives a child whose path is the parent's
\* path followed by the relationship's key and leaves the parent's path, the
\* Query and the included set as they were; the child works on that same
\* Query and set, and the related resource's to_object call runs under the
\* child.
C24_ForkPath ==
    [][/\ (dStack = <<>> /\ dStack' # <<>>) =>
              dStack'[1].exec.path = <<>> /\ dQuery' = dQuery
       /\ Forked =>
              LET parent == Top(dStack).exec
                  key    == from_str(Decls[Top(dStack).pc].name).key
                  child  == Unwrap(Top(dStack').cur).exec
              IN  /\ child.path = Append(parent.path, key)
                  /\ Top(dStack').exec = parent
                  /\ Rest(dStack') = Rest(dStack)
                  /\ dQuery' = dQuery
                  /\ dIncl' = dIncl
       /\ (dStack # <<>> /\ Len(dStack') = Len(dStack) + 1) =>
              /\ IsSome(Top(dStack).cur)
              /\ Top(dStack').exec = Unwrap(Top(dStack).cur).exec
              /\ dStack'[Len(dStack)].exec = Top(dStack).exec
              /\ dQuery' = dQuery]_vars

\* The comment's call, itself under the fork for comments, forked for the
\* comment's author.
C24_Witness ==
    /\ Len(dStack) = 2
    /\ dStack[1].exec.path = <<>>
    /\ dStack[2].exec.path = <<K_comments>>
    /\ IsSome(dStack[2].cur)
    /\ Unwrap(dStack[2].cur).exec.path = <<K_comments, K_author>>

\* the names a kind's declaration is written with that parse to a Key
RawAttrNames(kind) ==
    {r \in {DeclOf(kind).attrs[i][1] : i \in 1..Len(DeclOf(kind).attrs)} :
        from_str(r).ok}
RawRelNames(kind) ==
    {r \in {DeclOf(kind).rels[i].name : i \in 1..Len(DeclOf(kind).rels)} :
        from_str(r).ok}

\* C27: the fieldset test and the emitted member name agree: a field written
\* r in the declaration passes the test exactly when there is no fieldset for
\* its kind or the fieldset contains the Key r parses to, and it is in the
\* rendered Object, under that Key, exactly then; however r is cased.
C27_FieldTestAgrees ==
    \A o \in Rendered :
        /\ \A r \in RawAttrNames(o.kind) :
              /\ field(dQuery, o.kind, r) = Allowed(o.kind, from_str(r).key)
              /\ (from_str(r).key \in KeySet(o.attributes))
                    = Allowed(o.kind, from_str(r).key)
        /\ \A r \in RawRelNames(o.kind) :
              /\ field(dQuery, o.kind, r) = Allowed(o.kind, from_str(r).key)
              /\ (from_str(r).key \in KeySet(o.relationships))
                    = Allowed(o.kind, from_str(r).key)

\* What holds: the test and the emitted name agree for the fields whose
\* written name is its own Key, and every field is emitted under the Key of
\* its name exactly when the test on the written name passes.
FieldTestOnWrittenName ==
    \A o \in Rendered :
        /\ \A r \in RawAttrNames(o.kind) :
              /\ (from_str(r).key \in KeySet(o.attributes))
                    = field(dQuery, o.kind, r)
              /\ from_str(r).key = r =>
                    field(dQuery, o.kind, r) = Allowed(o.kind, r)
        /\ \A r \in RawRelNames(o.kind) :
              /\ (from_str(r).key \in KeySet(o.relationships))
                    = field(dQuery, o.kind, r)
              /\ from_str(r).key = r =>
                    field(dQuery, o.kind, r) = Allowed(o.kind, r)

IncludePaths == IF IsSome(dQuery) THEN Unwrap(dQuery).include ELSE {}

LongestInclude ==
    IF IncludePaths = {} THEN 0
    ELSE CHOOSE n \in {Len(p) : p \in IncludePaths} :
            \A p \in IncludePaths : Len(p) <= n

\* Every to_object call made for a related resource was made under a path of
\* Query.include, and so is every call in progress.
DescentsIncluded ==
    /\ \A i \in 1..Len(dLog) :
          (dLog[i].ev = "to_object" /\ dLog[i].path # <<>>) =>
              dLog[i].path \in IncludePaths
    /\ \A i \in 2..Len(dStack) : dStack[i].exec.path \in IncludePaths
    /\ \A i \in 1..Len(dStack) : Len(dStack[i].exec.path) = i - 1

\* How many resources one step of a path can lead to, and how many
\* to_object calls the include paths allow for the resources resolve is
\* called on.
Fan == IF Len(dWorld.comments) > 1 THEN Len(dWorld.comments) ELSE 1
CallBound == Len(dWorld.slice) * (1 + Fan * Cardinality(IncludePaths))

ToObjectCalls == Cardinality({i \in 1..Len(dLog) : dLog[i].ev = "to_object"})

\* C30: deflate follows a relationship into its resources only under a path
\* of Query.include: every to_object call for a related resource runs in a
\* frame whose path is in Query.include, the calls in progress are at most
\* one more than the longest include path, and without a Query no related
\* resource is rendered at all.  So the walk ends on every graph, those
\* whose resources refer to each other in a cycle too: the calls it makes
\* are bounded by the include paths, not by the graph.
C30_DescentAlongIncludes ==
    dStatus \in {"run", "done", "err"} =>
        /\ DescentsIncluded
        /\ Len(dStack) <= LongestInclude + 1
        /\ ToObjectCalls <= CallBound
        /\ ~IsSome(dQuery) =>
              dIncl = <<>> /\ ToObjectCalls <= Len(dWorld.slice)

\* Article 1's author has article 1 as its latest: the walk went round the
\* cycle once, as far as the include paths reach, and resolve returned.
C30_Witness ==
    /\ dStatus = "done"
    /\ dWorld.latest = Some("a1")
    /\ \E i \in 1..Len(dLog) :
          /\ dLog[i].ev = "to_object"
          /\ dLog[i].path = <<K_author, K_latest, K_author>>

\* Without a Query the document of a cyclic graph has its primary data only.
C30_WitnessNoQuery ==
    /\ dStatus = "done"
    /\ dWorld.latest = Some("a1")
    /\ dWorld.author = Some("u9")
    /\ ~IsSome(dQuery)
    /\ Len(dData) = 1
    /\ dIncl = <<>>

(***************************************************************************)
(* Claims about the round trip, checked under SpecRound.                   *)
(***************************************************************************)
\* The resource as a tree: type, id, the attributes, and for each
\* relationship with an underlying value the related resource (or null), or
\* the list of the related resources.
RECURSIVE Tree(_)
RelTree(d) ==
    IF d.card = "one"
    THEN IF IsSome(d.one) THEN Tree(Unwrap(d.one)) ELSE OVal(VNull)
    ELSE OSeq([i \in 1..Len(d.many) |-> Tree(d.many[i])])
Tree(ref) ==
    LET res  == Resource(dWorld, ref)
        rels == SelectSeq(res.rels, LAMBDA d : d.form # "none")
    IN  OMap(<< <<Some(K_type), OStr(res.kind)>>,
                <<Some(K_id), OStr(res.id)>> >>
             \o [i \in 1..Len(res.attrs) |->
                    <<Some(from_str(res.attrs[i][1]).key),
                      OVal(Unwrap(from_json(res.attrs[i][2]).val))>>]
             \o [i \in 1..Len(rels) |->
                    <<Some(from_str(rels[i].name).key), RelTree(rels[i])>>])

PrimaryTree ==
    IF dWorld.many
    THEN OSeq([i \in 1..Len(dWorld.slice) |-> Tree(dWorld.slice[i])])
    ELSE Tree("a1")

\* C2: a resource deflated under a Query that includes every relationship
\* path and then inflated into a schema that asks for every field comes back
\* as it was: every attribute value and every related resource.
C2_RoundTrip ==
    gStatus \in {"ok", "err"} => gStatus = "ok" /\ gValue = PrimaryTree

\* With no empty to-many relationship in sight the round trip does hold.
C2_NonEmptyRoundTrip ==
    ( /\ gStatus \in {"ok", "err"}
      /\ ~dWorld.many
      /\ dWorld.comments # <<>> ) => gStatus = "ok" /\ gValue = PrimaryTree

C2_NonEmptyWitness ==
    /\ gStatus = "ok"
    /\ ~dWorld.many
    /\ dWorld.comments # <<>>
    /\ IsSome(dWorld.author)
    /\ gValue = PrimaryTree


(***************************************************************************)
(* Claims about the Value conversions, checked under SpecValue.            *)
(***************************************************************************)
\* The Keys of the objects of a Value, at every depth.
RECURSIVE ValueKeys(_)
ValueKeys(value) ==
    CASE value.t = "Array" ->
            UNION {ValueKeys(value.v[i]) : i \in 1..Len(value.v)}
      [] value.t = "Object" ->
            {value.v[i][1] : i \in 1..Len(value.v)}
            \cup UNION {ValueKeys(value.v[i][2]) : i \in 1..Len(value.v)}
      [] OTHER -> {}

\* Parsing the text of the Key gives the Key back.
StableKey(k) == from_str(k).ok /\ from_str(k).key = k

\* C11: for every Value v whose object keys were produced by Key parsing,
\* from_json(to_json(v)) succeeds and equals v, object keys and their order
\* included.
C11_ValueRoundTrip ==
    (vOut.done /\ vIn.as = "Value") =>
        vOut.res.ok /\ vOut.res.val = Some(vIn.v)

\* The round trip does hold when every Key parses to itself and the JSON map
\* keeps insertion order.
ValueRoundTripStable ==
    ( /\ vOut.done
      /\ vIn.as = "Value"
      /\ vIn.ordered
      /\ \A k \in ValueKeys(vIn.v) : StableKey(k) ) =>
        vOut.res.ok /\ vOut.res.val = Some(vIn.v)

\* The keys of the objects of a JsonValue in the order from_json meets them:
\* the key of an entry, then the keys inside its value.
RECURSIVE JsonKeySeq(_)
RECURSIVE JsonKeySeqOf(_, _)
JsonKeySeqOf(members, keyed) ==
    IF members = <<>> THEN <<>>
    ELSE (IF keyed
          THEN <<Head(members)[1]>> \o JsonKeySeq(Head(members)[2])
          ELSE JsonKeySeq(Head(members)))
         \o JsonKeySeqOf(Tail(members), keyed)
JsonKeySeq(value) ==
    CASE value.t = "JArray" -> JsonKeySeqOf(value.v, FALSE)
      [] value.t = "JObject" -> JsonKeySeqOf(value.v, TRUE)
      [] OTHER -> <<>>

InvalidAt(keys) == {i \in 1..Len(keys) : ~from_str(keys[i]).ok}

\* C12: from_json fails exactly when some object key, at any depth, does not
\* parse as a Key; the error is the one of the first such key, and no Value
\* comes back with it; when it succeeds every key of the input is in the
\* Value, parsed, so none was left out.
C12_InvalidKeyFails ==
    (vOut.done /\ vIn.as = "Json") =>
        LET keys == JsonKeySeq(vIn.v)
            bad  == InvalidAt(keys)
            res  == vOut.res
        IN  /\ res.ok = (bad = {})
            /\ ~res.ok =>
                  /\ res.val = NoneV
                  /\ IsSome(res.err)
                  /\ Unwrap(res.err).source = keys[SeqMin(bad)]
                  /\ Unwrap(res.err).why = from_str(keys[SeqMin(bad)]).err
            /\ res.ok =>
                  /\ IsSome(res.val)
                  /\ ValueKeys(Unwrap(res.val)) =
                         {from_str(keys[i]).key : i \in 1..Len(keys)}

\* an object key two levels down does not parse, the keys above it do
C12_Witness ==
    /\ vOut.done
    /\ vIn.as = "Json"
    /\ vIn.v.t = "JArray"
    /\ JsonKeySeq(vIn.v) = << <<"b">>, <<"a">>, <<"-", "a">> >>
    /\ ~vOut.res.ok
    /\ vOut.res.val = NoneV
    /\ Unwrap(vOut.res.err).source = <<"-", "a">>


(***************************************************************************)
(* Claims about Document, checked under SpecDoc.                           *)
(***************************************************************************)
\* C17: is_err answers TRUE exactly for a Document::Err and is_ok answers
\* TRUE exactly for a Document::Ok, so that of the two answers about one
\* document exactly one is TRUE.
C17_OkOrErr ==
    /\ IsSome(mOut.is_ok) => Unwrap(mOut.is_ok) = Unwrap(mDoc).ok
    /\ IsSome(mOut.is_err) => Unwrap(mOut.is_err) = ~Unwrap(mDoc).ok
    /\ (IsSome(mOut.is_ok) /\ IsSome(mOut.is_err)) =>
          Unwrap(mOut.is_ok) # Unwrap(mOut.is_err)

\* is_ok alone answers as documented.
IsOkAsDocumented ==
    IsSome(mOut.is_ok) => Unwrap(mOut.is_ok) = Unwrap(mDoc).ok

====
